---- MODULE Spec2Model ----
(***************************************************************************)
(* pdf2ttf: raster-to-vector glyph extraction (CharacterExtractor.tsx) and *)
(* the vector path editor (GlyphEditor.tsx), as state machines.            *)
(*                                                                         *)
(* Numbers.  Point coordinates are JavaScript numbers.  Every coordinate   *)
(* the model produces is a dyadic rational (integer pixels, and the        *)
(* 0.25/0.75 blends of smoothPoints), which a double holds exactly, so a   *)
(* coordinate is kept as an integer count of 1/Den units.  NaN and         *)
(* undefined are two out-of-band integers.                                 *)
(***************************************************************************)
EXTENDS Integers, Sequences, FiniteSets, TLC

VARIABLES
  \* --- path round trip (parsePath / pointsToPath as pure functions)
  ppc, ppoints, pstr, pparsed,
  \* --- CharacterExtractor: selection, threshold and one run of vectoriseSelection
  selection, natScale, region, threshold, canvas, tpc, foundStart, start, p, b,
  steps, tpoints, loopExit, simplified,
  \* --- App: the glyph collection; the clock Date.now() reads
  glyphs, clock,
  \* --- GlyphEditor: the glyph prop (App's editingGlyph) and the component state
  editingGlyph, points, history, dragIdx, isPanning, lastMousePos, etransform, crashed,
  \* --- CharacterExtractor: the viewport and the pointer state
  xtransform, xIsPanning, isDragging, startPos,
  \* --- the page: client sizes and origins of the editor svg and the extractor
  \*     container, the image's natural size; the number of events a run may take
  eview, xview, imgNat, opLimit,
  \* --- App: the source image, its undo stack, the status of the image edit, the
  \*     error banner; the calls of editImageWithGemini that have not settled
  currentImage, imageHistory, status, error, requests,
  \* --- the page: where the pointer was at the last press or pan move over the
  \*     extractor
  pointer,
  \* --- bookkeeping: events taken, the last wheel zoom, the record of snapshots
  nOps, zoomProbe, lastOp, hbase, hdropped, hActs, hUndos

pathVars == <<ppc, ppoints, pstr, pparsed>>
extractVars == <<selection, natScale, region, threshold, canvas, tpc, foundStart,
                 start, p, b, steps, tpoints, loopExit, simplified>>
appVars == <<glyphs, clock>>
editVars == <<editingGlyph, points, history, dragIdx, isPanning, lastMousePos,
              etransform, crashed>>
xviewVars == <<xtransform, xIsPanning, isDragging, startPos>>
pageVars == <<eview, xview, imgNat, opLimit>>
imageVars == <<currentImage, imageHistory, status, error, requests>>
envVars == <<pageVars, imageVars, pointer>>
histVars == <<lastOp, hbase, hdropped, hActs, hUndos>>
vars == <<pathVars, extractVars, appVars, editVars, xviewVars, envVars, nOps,
          zoomProbe, histVars>>

\* What a step of one part leaves alone.
exceptPath == <<extractVars, appVars, editVars, xviewVars, envVars, nOps, zoomProbe,
                histVars>>
exceptExtract == <<pathVars, editVars, xviewVars, envVars, nOps, zoomProbe, histVars>>

\* "no selection" (selection is null) and "no pixel" (p, b before a trace starts)
NoSelection == [x |-> <<0, 1>>, y |-> <<0, 1>>, width |-> <<0 - 1, 1>>, height |-> <<0 - 1, 1>>]
NoPixel == [x |-> 0 - 9, y |-> 0 - 9]
Black == <<0, 0, 0>>
White == <<255, 255, 255>>
NoCanvas == [w |-> 0, h |-> 0, dark |-> {}, ink |-> Black, paper |-> White]

\* The parts of the state a specification does not exercise stay at these values.
PathIdle ==
  /\ ppc = "off"
  /\ ppoints = <<>>
  /\ pstr = <<>>
  /\ pparsed = <<>>

ExtractIdle ==
  /\ selection = NoSelection
  /\ natScale = <<1, 1>>
  /\ region = NoCanvas
  /\ threshold = 128
  /\ canvas = NoCanvas
  /\ tpc = "off"
  /\ foundStart = FALSE
  /\ start = NoPixel
  /\ p = NoPixel
  /\ b = NoPixel
  /\ steps = 0
  /\ tpoints = <<>>
  /\ loopExit = "none"
  /\ simplified = <<>>

AppIdle ==
  /\ glyphs = <<>>
  /\ clock = 0

\* editingGlyph is null; dragIdx is null
NoGlyph == [id |-> <<>>, svgPath |-> <<>>, width |-> 0, height |-> 0, name |-> <<>>]
NoDrag == 0 - 1

\* The App shows the editor while editingGlyph is set, the extractor otherwise
\* (App.tsx lines 103-133); an error thrown while rendering takes the page down.
EditorMounted == editingGlyph # NoGlyph /\ ~crashed
ExtractorMounted == editingGlyph = NoGlyph

\* One more user event may be taken.
MayAct == nOps < opLimit

\* The state of a GlyphEditor as useState creates it (lines 79-86).
EditorUnmounted ==
  /\ points = <<>>
  /\ history = <<>>
  /\ dragIdx = NoDrag
  /\ isPanning = FALSE
  /\ lastMousePos = [x |-> 0, y |-> 0]
  /\ etransform = [x |-> <<0, 1>>, y |-> <<0, 1>>, k |-> <<1, 1>>]
  /\ crashed = FALSE

EditIdle ==
  /\ editingGlyph = NoGlyph
  /\ EditorUnmounted

\* The state of a CharacterExtractor as useState creates it (lines 23-29).
XViewIdle ==
  /\ xtransform = [x |-> <<0, 1>>, y |-> <<0, 1>>, scale |-> <<1, 1>>]
  /\ xIsPanning = FALSE
  /\ isDragging = FALSE
  /\ startPos = [x |-> <<0, 1>>, y |-> <<0, 1>>]

NoProbe ==
  LET t == [x |-> <<0, 1>>, y |-> <<0, 1>>, scale |-> <<1, 1>>]
  IN [who |-> "none", at |-> <<0, 0>>, from |-> t, to |-> t]

\* An image was uploaded and never edited (images are numbered, null is 0).
NoImage == 0
ImageIdle ==
  /\ currentImage = 1
  /\ imageHistory = <<>>
  /\ status = "IDLE"
  /\ error = FALSE
  /\ requests = <<>>

NoPointer == [x |-> 0, y |-> 0]

EnvIdle ==
  /\ eview = [w |-> 800, h |-> 600, left |-> 0, top |-> 0]
  /\ xview = [w |-> 700, h |-> 500, left |-> 0, top |-> 0]
  /\ imgNat = [w |-> 400, h |-> 300]
  /\ opLimit = 0
  /\ ImageIdle
  /\ pointer = NoPointer

BookIdle ==
  /\ nOps = 0
  /\ zoomProbe = NoProbe
  /\ lastOp = "none"
  /\ hbase = <<>>
  /\ hdropped = 0
  /\ hActs = 0
  /\ hUndos = 0

----------------------------------------------------------------------------
\* Numbers and their text

\* Coordinate resolution: 1/16, two rounds of the quarter blends of smoothPoints.
Den == 4 * 4

\* JavaScript's NaN and undefined, as they come out of Number(...) and coords[1].
NaN == 0 - 1000001
Undefined == 0 - 1000002

IsNum(v) == v # NaN /\ v # Undefined

Abs(n) == IF n < 0 THEN 0 - n ELSE n

\* Exact rationals <<n, d>>, d > 0, in lowest terms: the viewport's scale and
\* translation and the selection rectangle (screen / scale) are not dyadic.
RECURSIVE GCD(_, _)
GCD(a, c) == IF c = 0 THEN a ELSE GCD(c, a % c)

Rat(n, d) ==
  LET g == GCD(Abs(n), Abs(d))
      sg == IF d < 0 THEN 0 - 1 ELSE 1
  IN <<(sg * n) \div g, (sg * d) \div g>>

RInt(n) == <<n, 1>>
RAdd(q, r) ==
  LET g == GCD(q[2], r[2])
  IN Rat(q[1] * (r[2] \div g) + r[1] * (q[2] \div g), (q[2] \div g) * r[2])
RNeg(q) == <<0 - q[1], q[2]>>
RSub(q, r) == RAdd(q, RNeg(r))
RMul(q, r) ==
  LET g1 == GCD(Abs(q[1]), r[2])
      g2 == GCD(Abs(r[1]), q[2])
  IN Rat((q[1] \div g1) * (r[1] \div g2), (q[2] \div g2) * (r[2] \div g1))
RInv(q) == IF q[1] < 0 THEN <<0 - q[2], 0 - q[1]>> ELSE <<q[2], q[1]>>
RDiv(q, r) == RMul(q, RInv(r))
RLt(q, r) == RSub(q, r)[1] < 0
RLe(q, r) == RSub(q, r)[1] <= 0
RMin(q, r) == IF RLt(r, q) THEN r ELSE q
RMax(q, r) == IF RLt(q, r) THEN r ELSE q
RAbs(q) == <<Abs(q[1]), q[2]>>
\* Math.floor
RFloor(q) == q[1] \div q[2]

DigitChars == <<"0", "1", "2", "3", "4", "5", "6", "7", "8", "9">>

Letters == {"M", "L", "Z", "C", "Q", "H", "V", "A", "N", "a", "u", "n", "d", "e", "f", "i"}

Whitespace == {" "}

RECURSIVE NatStr(_)
NatStr(n) ==
  IF n < 10 THEN <<DigitChars[n + 1]>>
  ELSE NatStr(n \div 10) \o <<DigitChars[(n % 10) + 1]>>

RECURSIVE FracStr(_)
FracStr(r) ==
  IF r = 0 THEN <<>>
  ELSE <<DigitChars[((r * 10) \div Den) + 1]>> \o FracStr((r * 10) % Den)

\* `${v}` of a number: the shortest decimal text, exact for these values.
NumStr(v) ==
  IF v = NaN THEN <<"N", "a", "N">>
  ELSE IF v = Undefined THEN <<"u", "n", "d", "e", "f", "i", "n", "e", "d">>
  ELSE (IF v < 0 THEN <<"-">> ELSE <<>>)
       \o NatStr(Abs(v) \div Den)
       \o (IF Abs(v) % Den = 0 THEN <<>> ELSE <<".">> \o FracStr(Abs(v) % Den))

DigitVal(c) == CHOOSE d \in 0..9 : DigitChars[d + 1] = c

IsDigit(c) == \E d \in 0..9 : DigitChars[d + 1] = c

RECURSIVE NatVal(_)
NatVal(s) ==
  IF s = <<>> THEN 0
  ELSE NatVal(SubSeq(s, 1, Len(s) - 1)) * 10 + DigitVal(s[Len(s)])

\* The value of the decimal fraction .s in 1/Den units, or NaN when it is no
\* multiple of 1/Den (no text the model writes is).
RECURSIVE Pow10(_)
Pow10(n) == IF n = 0 THEN 1 ELSE 10 * Pow10(n - 1)

FracVal(s) ==
  LET num == NatVal(s) * Den
      den == Pow10(Len(s))
  IN IF num % den = 0 THEN num \div den ELSE NaN

AllDigits(s) == \A i \in 1..Len(s) : IsDigit(s[i])

\* Number(s) for the texts split() hands it: "" is 0, a decimal literal is its
\* value, anything else is NaN.
UnsignedNumber(s) ==
  LET dot == {i \in 1..Len(s) : s[i] = "."}
  IN IF dot = {} THEN (IF AllDigits(s) /\ s # <<>> THEN NatVal(s) * Den ELSE NaN)
     ELSE LET i == CHOOSE j \in dot : \A k \in dot : j <= k
              ip == SubSeq(s, 1, i - 1)
              fp == SubSeq(s, i + 1, Len(s))
          IN IF AllDigits(ip) /\ AllDigits(fp) /\ (ip # <<>> \/ fp # <<>>)
                /\ FracVal(fp) # NaN
             THEN NatVal(ip) * Den + FracVal(fp)
             ELSE NaN

Number(s) ==
  IF s = <<>> THEN 0
  ELSE IF s[1] = "-"
       THEN LET u == UnsignedNumber(Tail(s)) IN IF u = NaN THEN NaN ELSE 0 - u
       ELSE UnsignedNumber(s)

----------------------------------------------------------------------------
\* Path description text: parsePath and pointsToPath (GlyphEditor.tsx)

Point(x, y) == [x |-> x, y |-> y, type |-> "corner"]

\* d.match(/[a-zA-Z][^a-zA-Z]*/g): each command runs from a letter up to the next.
RECURSIVE NextLetter(_, _)
NextLetter(d, i) ==
  IF i > Len(d) THEN Len(d) + 1
  ELSE IF d[i] \in Letters THEN i ELSE NextLetter(d, i + 1)

RECURSIVE MatchCommands(_, _)
MatchCommands(d, i) ==
  LET s == NextLetter(d, i)
  IN IF s > Len(d) THEN <<>>
     ELSE LET e == NextLetter(d, s + 1)
          IN <<SubSeq(d, s, e - 1)>> \o MatchCommands(d, e)

\* String.prototype.trim
RECURSIVE Trim(_)
Trim(s) ==
  IF s = <<>> THEN s
  ELSE IF s[1] \in Whitespace THEN Trim(Tail(s))
  ELSE IF s[Len(s)] \in Whitespace THEN Trim(SubSeq(s, 1, Len(s) - 1))
  ELSE s

IsSep(c) == c \in Whitespace \/ c = ","

\* s.split(/[\s,]+/): the fields between maximal runs of separators; a leading or
\* trailing run leaves an empty field, and "" splits to [""].
RECURSIVE SplitFrom(_, _, _)
SplitFrom(s, i, field) ==
  IF i > Len(s) THEN <<field>>
  ELSE IF IsSep(s[i])
       THEN IF i > 1 /\ IsSep(s[i - 1]) THEN SplitFrom(s, i + 1, field)
            ELSE <<field>> \o SplitFrom(s, i + 1, <<>>)
       ELSE SplitFrom(s, i + 1, Append(field, s[i]))

Split(s) == SplitFrom(s, 1, <<>>)

Coords(cmd) ==
  LET fields == Split(Trim(Tail(cmd)))
  IN [i \in 1..Len(fields) |-> Number(fields[i])]

CoordAt(coords, i) == IF i <= Len(coords) THEN coords[i] ELSE Undefined

RECURSIVE ParseCommands(_)
ParseCommands(commands) ==
  IF commands = <<>> THEN <<>>
  ELSE LET cmd == Head(commands)
           coords == Coords(cmd)
       IN (IF cmd[1] = "M" \/ cmd[1] = "L"
           THEN <<Point(CoordAt(coords, 1), CoordAt(coords, 2))>>
           ELSE <<>>)
          \o ParseCommands(Tail(commands))

parsePath(d) == ParseCommands(MatchCommands(d, 1))

\* The loop of pointsToPath: for i = 0 .. length-1 it appends " L" and the point
\* after i, wrapping to the first point at the end (i is 1-based here).
RECURSIVE LineTos(_, _)
LineTos(pts, i) ==
  IF i > Len(pts) THEN <<>>
  ELSE LET next == pts[(i % Len(pts)) + 1]
       IN <<" ", "L">> \o NumStr(next.x) \o <<" ">> \o NumStr(next.y)
          \o LineTos(pts, i + 1)

pointsToPath(pts) ==
  IF Len(pts) = 0 THEN <<>>
  ELSE <<"M">> \o NumStr(pts[1].x) \o <<" ">> \o NumStr(pts[1].y)
       \o LineTos(pts, 1) \o <<"Z">>

----------------------------------------------------------------------------
\* Specification SpecPath: serialize a point sequence, then parse the text.

\* Longest point sequence the round trip is tried on.
MaxPathLen == 4

PathPoints ==
  { Point(0, 0), Point(10 * Den, 0), Point(10 * Den, 10 * Den),
    Point(0 - 40, 4), [x |-> 3 * Den, y |-> 7 * Den + 8, type |-> "smooth"] }

PathSeqs == UNION { [1..n -> PathPoints] : n \in 0..MaxPathLen }

InitPath ==
  /\ ppc = "points"
  /\ ppoints \in PathSeqs
  /\ pstr = <<>>
  /\ pparsed = <<>>
  /\ ExtractIdle
  /\ AppIdle
  /\ EditIdle /\ XViewIdle /\ EnvIdle /\ BookIdle

Serialize ==
  /\ ppc = "points"
  /\ pstr' = pointsToPath(ppoints)
  /\ ppc' = "text"
  /\ UNCHANGED <<ppoints, pparsed, exceptPath>>

Parse ==
  /\ ppc = "text"
  /\ pparsed' = parsePath(pstr)
  /\ ppc' = "parsed"
  /\ UNCHANGED <<ppoints, pstr, exceptPath>>

NextPath == Serialize \/ Parse

SpecPath == InitPath /\ [][NextPath]_vars

XY(pts) == [i \in 1..Len(pts) |-> <<pts[i].x, pts[i].y>>]

\* C1: for every point sequence with at least 3 points, parsing its
\* serialization gives back the same coordinates, as many and in the same order.
C1_RoundTrip ==
  (ppc = "parsed" /\ Len(ppoints) >= 3) => XY(pparsed) = XY(ppoints)

----------------------------------------------------------------------------
\* CharacterExtractor.tsx: isPixelOn and vectoriseSelection

\* A raster is [w, h, dark, ink, paper]: the pixels in dark hold the colour ink,
\* the others the colour paper. A colour is <<R, G, B>> or <<R, G, B, A>>.
PixelRGB(cv, x, y) == IF <<x, y>> \in cv.dark THEN cv.ink ELSE cv.paper

\* 100 * (0.34*R + 0.5*G + 0.16*B)
Brightness100(rgb) == 34 * rgb[1] + 50 * rgb[2] + 16 * rgb[3]

\* The sum is computed in double precision, (0.34*R + 0.5*G) + 0.16*B with each
\* product and each sum rounded to nearest. Of the colours whose exact sum is a
\* whole number, these are the ones whose computed sum is one unit in the last
\* place below it; for every other colour the computed sum compares with a
\* whole threshold as the exact sum does.
LumaRoundsBelow(rgb) ==
  \/ rgb[1] = 53 /\ rgb[3] = 3 /\ rgb[2] % 2 = 1 /\ rgb[2] >= 29 /\ rgb[2] <= 91
  \/ /\ rgb[1] = 106 /\ rgb[2] % 2 = 0 /\ rgb[2] >= 56
     /\ \/ rgb[3] = 6 /\ rgb[2] <= 182
        \/ rgb[3] = 31 /\ rgb[2] <= 174
  \/ /\ rgb[1] = 212 /\ rgb[2] % 2 = 0 /\ rgb[2] >= 112 /\ rgb[2] <= 254
     /\ rgb[3] \in {12, 37, 62, 87}

isPixelOn(cv, x, y, th) ==
  IF x < 0 \/ x >= cv.w \/ y < 0 \/ y >= cv.h THEN FALSE
  ELSE LET rgb == PixelRGB(cv, x, y)
       IN \/ Brightness100(rgb) < 100 * th
          \/ Brightness100(rgb) = 100 * th /\ LumaRoundsBelow(rgb)

\* Order: N, NE, E, SE, S, SW, W, NW (offsets[k] of the code is Offsets[k + 1]).
Offsets ==
  << [dx |-> 0, dy |-> 0 - 1], [dx |-> 1, dy |-> 0 - 1], [dx |-> 1, dy |-> 0],
     [dx |-> 1, dy |-> 1], [dx |-> 0, dy |-> 1], [dx |-> 0 - 1, dy |-> 1],
     [dx |-> 0 - 1, dy |-> 0], [dx |-> 0 - 1, dy |-> 0 - 1] >>

Neighbour(q, k) == [x |-> q.x + Offsets[k + 1].dx, y |-> q.y + Offsets[k + 1].dy]

\* The offset that leads from q to bk, 0 when there is none.
StartIndex(q, bk) ==
  LET hit == {k \in 0..7 : Neighbour(q, k) = bk}
  IN IF hit = {} THEN 0 ELSE CHOOSE k \in hit : \A j \in hit : k <= j

\* A scan that goes round the other way, from the neighbour before bk.
ScanNeighboursAnticlockwise(cv, th, q, bk) ==
  LET startIndex == StartIndex(q, bk)
      idx(i) == (startIndex + 7 - i) % 8
      on == {i \in 0..7 : isPixelOn(cv, Neighbour(q, idx(i)).x, Neighbour(q, idx(i)).y, th)}
  IN IF on = {} THEN [found |-> FALSE, nextP |-> q, nextB |-> bk]
     ELSE LET i == CHOOSE j \in on : \A k \in on : j <= k
          IN [found |-> TRUE,
              nextP |-> Neighbour(q, idx(i)),
              nextB |-> Neighbour(q, (idx(i) + 1) % 8)]

\* One scan of the 8 neighbours of q, clockwise from the one after bk.
ScanNeighbours(cv, th, q, bk) ==
  LET startIndex == StartIndex(q, bk)
      idx(i) == (startIndex + 1 + i) % 8
      on == {i \in 0..7 : isPixelOn(cv, Neighbour(q, idx(i)).x, Neighbour(q, idx(i)).y, th)}
  IN IF on = {} THEN [found |-> FALSE, nextP |-> q, nextB |-> bk]
     ELSE LET i == CHOOSE j \in on : \A k \in on : j <= k
          IN [found |-> TRUE,
              nextP |-> Neighbour(q, idx(i)),
              nextB |-> Neighbour(q, (idx(i) - 1 + 8) % 8)]

\* The foreground pixels, and the first of them in raster-scan order.
Foreground(cv, th) ==
  {px \in (0..(cv.w - 1)) \X (0..(cv.h - 1)) : isPixelOn(cv, px[1], px[2], th)}

\* A scan that runs down the columns instead of along the rows.
FirstForegroundByColumn(cv, th) ==
  LET fg == Foreground(cv, th)
      first == CHOOSE px \in fg :
                 \A q \in fg : px[1] < q[1] \/ (px[1] = q[1] /\ px[2] <= q[2])
  IN [x |-> first[1], y |-> first[2]]

FirstForeground(cv, th) ==
  LET fg == Foreground(cv, th)
      first == CHOOSE px \in fg :
                 \A q \in fg : px[2] < q[2] \/ (px[2] = q[2] /\ px[1] <= q[1])
  IN [x |-> first[1], y |-> first[2]]

MaxSteps(cv) == cv.w * cv.h * 2

\* A do-while that goes on while either condition holds.
TraceContinueEither(q, st, n, max) == (q.x # st.x \/ q.y # st.y) \/ n < max

\* The condition of the do-while.
TraceContinue(q, st, n, max) == (q.x # st.x \/ q.y # st.y) /\ n < max

\* Math.floor(selection.width * scaleX), scaleX = naturalWidth / clientWidth
CanvasSize(len, scale) == RFloor(RMul(len, scale))

\* vectoriseSelection, lines 136-161: the guard, and the canvas the selected part
\* of the image is drawn on.
VectoriseAt(pc) ==
  /\ ExtractorMounted
  /\ tpc = pc
  /\ IF selection = NoSelection \/ RLt(selection.width, RInt(5))
        \/ RLt(selection.height, RInt(5))
     THEN UNCHANGED <<canvas, tpc, tpoints, foundStart, simplified>>
     ELSE /\ canvas' = [region EXCEPT !.w = CanvasSize(selection.width, natScale),
                                      !.h = CanvasSize(selection.height, natScale)]
          /\ tpoints' = <<>>
          /\ foundStart' = FALSE
          /\ simplified' = <<>>
          /\ tpc' = "scan"
  /\ UNCHANGED <<selection, natScale, region, threshold, start, p, b, steps, loopExit>>
  /\ UNCHANGED <<exceptExtract, appVars>>

\* The first call of vectoriseSelection after the extractor was mounted, and a
\* call after an earlier call has returned.
VectoriseBegin == VectoriseAt("idle")

VectoriseAgain == VectoriseAt("done")

\* Lines 172-195: the raster scan for the start pixel.
ScanStart ==
  /\ tpc = "scan"
  /\ IF Foreground(canvas, threshold) = {}
     THEN /\ tpc' = "simplify"
          /\ UNCHANGED <<foundStart, start, p, b, steps>>
     ELSE LET s == FirstForeground(canvas, threshold)
          IN /\ start' = s
             /\ p' = s
             /\ b' = [x |-> s.x - 1, y |-> s.y]
             /\ steps' = 0
             /\ foundStart' = TRUE
             /\ tpc' = "trace"
  /\ UNCHANGED <<selection, natScale, region, threshold, canvas, tpoints, loopExit, simplified>>
  /\ UNCHANGED <<exceptExtract, appVars>>

\* Lines 197-260: one iteration of the do-while.
TraceStep ==
  /\ tpc = "trace"
  /\ tpoints' = Append(tpoints, p)
  /\ LET scan == ScanNeighbours(canvas, threshold, p, b)
     IN IF scan.found
        THEN /\ p' = scan.nextP
             /\ b' = scan.nextB
             /\ steps' = steps + 1
             /\ IF TraceContinue(scan.nextP, start, steps + 1, MaxSteps(canvas))
                THEN UNCHANGED <<tpc, loopExit>>
                ELSE /\ tpc' = "simplify"
                     /\ loopExit' = IF scan.nextP = start THEN "closed" ELSE "bound"
        ELSE /\ tpc' = "simplify"
             /\ loopExit' = "isolated"
             /\ UNCHANGED <<p, b, steps>>
  /\ UNCHANGED <<selection, natScale, region, threshold, canvas, foundStart, start, simplified>>
  /\ UNCHANGED <<exceptExtract, appVars>>

\* Lines 268-287: the loop over the interior points (i is 1-based here).
Collinear(prev, curr, next) ==
  (curr.x - prev.x) * (next.y - curr.y) = (curr.y - prev.y) * (next.x - curr.x)

\* A loop that compares with the raw point before the current one.
RECURSIVE SimplifyLoopRawPrev(_, _, _)
SimplifyLoopRawPrev(pts, i, acc) ==
  IF i > Len(pts) - 1 THEN acc
  ELSE SimplifyLoopRawPrev(pts, i + 1,
         IF Collinear(pts[i - 1], pts[i], pts[i + 1]) THEN acc
         ELSE Append(acc, pts[i]))

RECURSIVE SimplifyLoop(_, _, _)
SimplifyLoop(pts, i, acc) ==
  IF i > Len(pts) - 1 THEN acc
  ELSE SimplifyLoop(pts, i + 1,
         IF Collinear(acc[Len(acc)], pts[i], pts[i + 1]) THEN acc
         ELSE Append(acc, pts[i]))

RemoveCollinearPoints(pts) ==
  IF Len(pts) > 0
  THEN Append(SimplifyLoop(pts, 2, <<pts[1]>>), pts[Len(pts)])
  ELSE <<>>

RemoveCollinear ==
  /\ tpc = "simplify"
  /\ simplified' = RemoveCollinearPoints(tpoints)
  /\ tpc' = "emit"
  /\ UNCHANGED <<selection, natScale, region, threshold, canvas, foundStart, start,
                 p, b, steps, tpoints, loopExit>>
  /\ UNCHANGED <<exceptExtract, appVars>>

\* Lines 289-300: the path text of the simplified points (integer pixels).
RECURSIVE ExtractLineTos(_, _)
ExtractLineTos(pts, i) ==
  IF i > Len(pts) THEN <<>>
  ELSE <<"L">> \o NumStr(pts[i].x * Den) \o <<" ">> \o NumStr(pts[i].y * Den)
       \o ExtractLineTos(pts, i + 1)

\* A path that is written for 2 points as well.
ExtractSvgPathFromTwo(pts) ==
  IF Len(pts) > 1
  THEN <<"M">> \o NumStr(pts[1].x * Den) \o <<" ">> \o NumStr(pts[1].y * Den)
       \o ExtractLineTos(pts, 2) \o <<"Z">>
  ELSE <<>>

\* A path whose closing Z is appended outside the length test.
ExtractSvgPathCloseAlways(pts) ==
  (IF Len(pts) > 2
   THEN <<"M">> \o NumStr(pts[1].x * Den) \o <<" ">> \o NumStr(pts[1].y * Den)
        \o ExtractLineTos(pts, 2)
   ELSE <<>>) \o <<"Z">>

ExtractSvgPath(pts) ==
  IF Len(pts) > 2
  THEN <<"M">> \o NumStr(pts[1].x * Den) \o <<" ">> \o NumStr(pts[1].y * Den)
       \o ExtractLineTos(pts, 2) \o <<"Z">>
  ELSE <<>>

\* s.slice(-4)
Last4(s) == IF Len(s) <= 4 THEN s ELSE SubSeq(s, Len(s) - 3, Len(s))

\* A glyph record with the two dimensions the wrong way round.
NewGlyphTransposed(svgPath, cv, now) ==
  [id |-> NatStr(now), svgPath |-> svgPath, width |-> cv.h, height |-> cv.w,
   name |-> <<"G", "l", "y", "p", "h", " ">> \o Last4(NatStr(now))]

NewGlyph(svgPath, cv, now) ==
  [id |-> NatStr(now), svgPath |-> svgPath, width |-> cv.w, height |-> cv.h,
   name |-> <<"G", "l", "y", "p", "h", " ">> \o Last4(NatStr(now))]

\* Lines 289-313, with App.handleGlyphCreated (App.tsx 52-54) as onGlyphCreated.
EmitGlyph ==
  /\ tpc = "emit"
  /\ LET svgPath == ExtractSvgPath(simplified)
     IN IF svgPath = <<>>
        THEN UNCHANGED <<glyphs, selection>>
        ELSE /\ glyphs' = Append(glyphs, NewGlyph(svgPath, canvas, clock))
             /\ selection' = NoSelection
  /\ tpc' = "done"
  /\ UNCHANGED <<natScale, region, threshold, canvas, foundStart, start, p, b, steps,
                 tpoints, loopExit, simplified, clock>>
  /\ UNCHANGED exceptExtract

----------------------------------------------------------------------------
\* Specification SpecTrace: one run of vectoriseSelection on each raster of a
\* bounded family, one loop iteration per step.

\* Largest raster of which every bitmap is traced.
MaxW == 3
MaxH == 3

Pixels(w, h) == (0..(w - 1)) \X (0..(h - 1))

Raster(w, h, dark) == [w |-> w, h |-> h, dark |-> dark, ink |-> Black, paper |-> White]

Shift(dark, dx, dy) == {<<px[1] + dx, px[2] + dy>> : px \in dark}

\* Shapes on rasters of the size a selection at natural scale gives (5 and up):
\* a filled 4x4 square, an apex with two diagonal strokes, a ring, a bar, and
\* two separate blobs.
Apex == {<<2, 0>>, <<1, 1>>, <<3, 1>>, <<0, 2>>, <<4, 2>>}
Ring == Pixels(3, 3) \ {<<1, 1>>}

ShapeRasters ==
  { Raster(6, 6, Shift(Pixels(4, 4), 1, 1)),
    Raster(5, 5, Shift(Pixels(4, 4), 0, 0)),
    Raster(5, 5, Shift(Apex, 0, 1)),
    Raster(5, 5, Shift(Ring, 1, 1)),
    Raster(6, 5, Shift(Pixels(4, 1), 1, 2)),
    Raster(6, 5, {<<1, 1>>} \cup Shift(Pixels(2, 2), 3, 2)),
    Raster(5, 5, {}) }

Gray == <<200, 200, 200>>

\* A selection over the whole raster r when one raster pixel shows as
\* scale[2]/scale[1] display pixels.
SelectionOver(r, scale) ==
  [x |-> RInt(0), y |-> RInt(0), width |-> RDiv(RInt(r.w), scale),
   height |-> RDiv(RInt(r.h), scale)]

InitTrace ==
  /\ \/ \E w \in 1..MaxW, h \in 1..MaxH :
          \E dark \in SUBSET Pixels(w, h) :
            /\ region = Raster(w, h, dark)
            /\ natScale = <<1, 5>>
            /\ selection = SelectionOver(region, natScale)
            /\ threshold = 128
     \/ /\ region \in ShapeRasters
        /\ natScale = <<1, 1>>
        /\ selection = SelectionOver(region, natScale)
        /\ threshold = 128
     \/ /\ region \in {[r EXCEPT !.paper = Gray] : r \in ShapeRasters}
        /\ natScale = <<1, 1>>
        /\ selection = SelectionOver(region, natScale)
        /\ threshold \in {0, 255}
     \/ /\ region \in ShapeRasters
        /\ natScale = <<1, 1>>
        /\ selection \in {NoSelection,
                          [SelectionOver(region, natScale) EXCEPT !.width = <<9, 2>>],
                          [SelectionOver(region, natScale) EXCEPT !.height = RInt(4)]}
        /\ threshold = 128
  /\ canvas = NoCanvas
  /\ tpc = "idle"
  /\ foundStart = FALSE
  /\ start = NoPixel
  /\ p = NoPixel
  /\ b = NoPixel
  /\ steps = 0
  /\ tpoints = <<>>
  /\ loopExit = "none"
  /\ simplified = <<>>
  /\ glyphs = <<>>
  /\ clock = 123456
  /\ PathIdle
  /\ EditIdle /\ XViewIdle /\ EnvIdle /\ BookIdle

NextTrace == VectoriseBegin \/ ScanStart \/ TraceStep \/ RemoveCollinear \/ EmitGlyph

SpecTrace == InitTrace /\ [][NextTrace]_vars

\* The 8-connected foreground component of a pixel, the background 4-connected to
\* the outside of the raster, and the component's pixels that touch it.
Adjacent8(q, r) == q # r /\ Abs(q[1] - r[1]) <= 1 /\ Abs(q[2] - r[2]) <= 1
Adjacent4(q, r) == Abs(q[1] - r[1]) + Abs(q[2] - r[2]) = 1

RECURSIVE Grow8(_, _)
Grow8(fg, comp) ==
  LET more == {q \in fg \ comp : \E r \in comp : Adjacent8(q, r)}
  IN IF more = {} THEN comp ELSE Grow8(fg, comp \cup more)

Component(cv, th, seed) == Grow8(Foreground(cv, th), {<<seed.x, seed.y>>})

RECURSIVE Grow4(_, _)
Grow4(bg, reach) ==
  LET more == {q \in bg \ reach : \E r \in reach : Adjacent4(q, r)}
  IN IF more = {} THEN reach ELSE Grow4(bg, reach \cup more)

Outside(cv, th) ==
  LET frame == ((0 - 1)..cv.w) \X ((0 - 1)..cv.h)
  IN Grow4(frame \ Foreground(cv, th), {<<0 - 1, 0 - 1>>})

OuterBoundary(cv, th, seed) ==
  LET out == Outside(cv, th)
  IN {q \in Component(cv, th, seed) : \E r \in out : Adjacent4(q, r)}

XYPairs(pts) == {<<pts[i].x, pts[i].y>> : i \in 1..Len(pts)}

TraceFinished == tpc \in {"simplify", "emit", "done"} /\ foundStart

\* C3: the raw trace is the closed outer boundary of the start pixel's component:
\* its points are pixels of that component, each point and its cyclic successor
\* are 8-adjacent, and every pixel of the component that touches the outside
\* background is among them.
C3_TracerCoverage ==
  TraceFinished =>
    /\ XYPairs(tpoints) \subseteq Component(canvas, threshold, start)
    /\ Len(tpoints) >= 2 =>
         \A i \in 1..Len(tpoints) :
           Adjacent8(<<tpoints[i].x, tpoints[i].y>>,
                     <<tpoints[(i % Len(tpoints)) + 1].x, tpoints[(i % Len(tpoints)) + 1].y>>)
    /\ OuterBoundary(canvas, threshold, start) \subseteq XYPairs(tpoints)

\* A filled 4x4 square of ink on paper, somewhere on the canvas.
IsSquare4(cv, dx, dy) ==
  /\ cv.dark = Shift(Pixels(4, 4), dx, dy)
  /\ dx >= 0 /\ dy >= 0 /\ dx + 4 <= cv.w /\ dy + 4 <= cv.h
  /\ cv.ink = Black /\ cv.paper = White

Corners4(dx, dy) == {<<dx, dy>>, <<dx + 3, dy>>, <<dx + 3, dy + 3>>, <<dx, dy + 3>>}

\* C4: a filled 4x4 black square on white, traced at threshold 128 and cleared
\* of collinear points, leaves exactly the 4 corner pixels of the square.
C4_SquareCorners ==
  (tpc \in {"emit", "done"} /\ threshold = 128) =>
    \A dx \in 0..2, dy \in 0..2 :
      IsSquare4(canvas, dx, dy) =>
        Len(simplified) = 4 /\ XYPairs(simplified) = Corners4(dx, dy)

\* C9: the trace loop stops.  Every iteration appends one point and, unless it
\* is the last, counts one step; the loop is left with p back on the start
\* pixel, with no foreground neighbour of p, or with steps at 2*w*h; so the raw
\* sequence never holds more than 2*w*h points.
C9_TracerTerminates ==
  /\ Len(tpoints) <= 2 * canvas.w * canvas.h
  /\ steps <= MaxSteps(canvas)
  /\ tpc = "trace" => Len(tpoints) = steps /\ steps < MaxSteps(canvas)
  /\ TraceFinished =>
       /\ loopExit \in {"closed", "isolated", "bound"}
       /\ loopExit = "closed" => p = start /\ Len(tpoints) = steps
       /\ loopExit = "isolated" =>
            /\ ~ ScanNeighbours(canvas, threshold, p, b).found
            /\ Len(tpoints) = steps + 1
       /\ loopExit = "bound" => steps = MaxSteps(canvas) /\ Len(tpoints) = steps

\* A trace that went round a component and came back to the start pixel.
C9_Witness == tpc = "simplify" /\ loopExit = "closed" /\ Len(tpoints) >= 8

\* On every raster of the family the loop is left before the step bound counts:
\* the case of C10 (a trace cut off by the bound) does not occur.
BoundNeverReached == loopExit # "bound" /\ (tpc = "trace" => steps + 2 <= MaxSteps(canvas))

\* C10: a trace that stops at the step bound without p back on the start pixel
\* creates no glyph.
C10_BoundIsFailure == (tpc = "done" /\ loopExit = "bound") => glyphs = <<>>

----------------------------------------------------------------------------
\* The two viewports: GlyphEditor {x, y, k} and CharacterExtractor {x, y, scale}.
\* Translations and scales are exact fractions <<n, d>>.

\* Math.max(0.1, Math.min(10, v))
Clamp(v) == RMax(<<1, 10>>, RMin(<<10, 1>>, v))

Half(q) == RDiv(q, <<2, 1>>)

\* The model point under a screen point (relative to the element's origin).
ToModel(t, sx, sy) ==
  <<RDiv(RSub(RInt(sx), t.x), t.scale), RDiv(RSub(RInt(sy), t.y), t.scale)>>

\* GlyphEditor lines 96-103 and 128-135: centre the glyph, scale at most 2.
EditorFit(g, view) ==
  LET scale == RMin(RMin(Rat(view.w, g.width + 40), Rat(view.h, g.height + 40)),
                    <<2, 1>>)
  IN [x |-> Half(RSub(RInt(view.w), RMul(RInt(g.width), scale))),
      y |-> Half(RSub(RInt(view.h), RMul(RInt(g.height), scale))),
      k |-> scale]

\* GlyphEditor lines 142-158: the updater handleWheel passes to setTransform.
EditorWheel(prev, mouseX, mouseY, scaleFactor) ==
  LET newK == Clamp(RMul(prev.k, scaleFactor))
      newX == RSub(RInt(mouseX), RMul(RSub(RInt(mouseX), prev.x), RDiv(newK, prev.k)))
      newY == RSub(RInt(mouseY), RMul(RSub(RInt(mouseY), prev.y), RDiv(newK, prev.k)))
  IN [x |-> newX, y |-> newY, k |-> newK]

\* A wheel handler that rescales and leaves the translation alone.
ExtractorWheelAboutOrigin(prev, mouseX, mouseY, scaleFactor) ==
  [x |-> prev.x, y |-> prev.y, scale |-> Clamp(RMul(prev.scale, scaleFactor))]

\* CharacterExtractor lines 76-85: the updater handleWheel passes to setTransform.
ExtractorWheel(prev, mouseX, mouseY, scaleFactor) ==
  LET newScale == Clamp(RMul(prev.scale, scaleFactor))
      scaleRatio == RDiv(newScale, prev.scale)
  IN [x |-> RSub(RInt(mouseX), RMul(RSub(RInt(mouseX), prev.x), scaleRatio)),
      y |-> RSub(RInt(mouseY), RMul(RSub(RInt(mouseY), prev.y), scaleRatio)),
      scale |-> newScale]

\* e.deltaY > 0 ? 0.9 : 1.1
WheelFactor(deltaY) == IF deltaY > 0 THEN <<9, 10>> ELSE <<11, 10>>

\* The editor's transform in the extractor's field names.
AsView(t) == [x |-> t.x, y |-> t.y, scale |-> t.k]

\* GlyphEditor lines 122-124; the buttons pass 0.9 and 1.1.
Editor_handleZoom(factor) ==
  /\ EditorMounted /\ MayAct
  /\ etransform' = [etransform EXCEPT !.k = Clamp(RMul(etransform.k, factor))]
  /\ nOps' = nOps + 1
  /\ UNCHANGED <<pathVars, extractVars, appVars, xviewVars, envVars, zoomProbe, histVars>>
  /\ UNCHANGED <<editingGlyph, points, history, dragIdx, isPanning, lastMousePos, crashed>>

\* GlyphEditor lines 126-137.
handleFitScreen ==
  /\ EditorMounted /\ MayAct
  /\ etransform' = EditorFit(editingGlyph, eview)
  /\ nOps' = nOps + 1
  /\ UNCHANGED <<pathVars, extractVars, appVars, xviewVars, envVars, zoomProbe, histVars>>
  /\ UNCHANGED <<editingGlyph, points, history, dragIdx, isPanning, lastMousePos, crashed>>

\* GlyphEditor lines 139-159.
Editor_handleWheel(e) ==
  /\ EditorMounted /\ MayAct
  /\ LET mouseX == e.clientX - eview.left
         mouseY == e.clientY - eview.top
         next == EditorWheel(etransform, mouseX, mouseY, WheelFactor(e.deltaY))
     IN /\ etransform' = next
        /\ zoomProbe' = [who |-> "editor", at |-> <<mouseX, mouseY>>,
                         from |-> AsView(etransform), to |-> AsView(next)]
  /\ nOps' = nOps + 1
  /\ UNCHANGED <<pathVars, extractVars, appVars, xviewVars, envVars, histVars>>
  /\ UNCHANGED <<editingGlyph, points, history, dragIdx, isPanning, lastMousePos, crashed>>

\* GlyphEditor lines 169-172.
handleCanvasMouseDown(e) ==
  /\ EditorMounted /\ MayAct
  /\ isPanning' = TRUE
  /\ lastMousePos' = [x |-> e.clientX, y |-> e.clientY]
  /\ nOps' = nOps + 1
  /\ UNCHANGED <<pathVars, extractVars, appVars, xviewVars, envVars, zoomProbe, histVars>>
  /\ UNCHANGED <<editingGlyph, points, history, dragIdx, etransform, crashed>>

\* CharacterExtractor lines 48-50; the buttons pass 1.2 and 1 / 1.2.
Extractor_handleZoom(factor) ==
  /\ ExtractorMounted /\ MayAct
  /\ xtransform' = [xtransform EXCEPT !.scale = Clamp(RMul(xtransform.scale, factor))]
  /\ nOps' = nOps + 1
  /\ UNCHANGED <<pathVars, extractVars, appVars, editVars, envVars, zoomProbe, histVars>>
  /\ UNCHANGED <<xIsPanning, isDragging, startPos>>

\* CharacterExtractor lines 52-65, on the image's natural size.
ResetTransform(view, img) ==
  LET scale == RMin(RMin(Rat(view.w, img.w), Rat(view.h, img.h)), <<1, 1>>)
  IN [x |-> Half(RSub(RInt(view.w), RMul(RInt(img.w), scale))),
      y |-> Half(RSub(RInt(view.h), RMul(RInt(img.h), scale))),
      scale |-> scale]

resetView ==
  /\ ExtractorMounted /\ MayAct
  /\ xtransform' = ResetTransform(xview, imgNat)
  /\ nOps' = nOps + 1
  /\ UNCHANGED <<pathVars, extractVars, appVars, editVars, envVars, zoomProbe, histVars>>
  /\ UNCHANGED <<xIsPanning, isDragging, startPos>>

\* CharacterExtractor lines 67-86.
Extractor_handleWheel(e) ==
  /\ ExtractorMounted /\ MayAct
  /\ LET mouseX == e.clientX - xview.left
         mouseY == e.clientY - xview.top
         next == ExtractorWheel(xtransform, mouseX, mouseY, WheelFactor(e.deltaY))
     IN /\ xtransform' = next
        /\ zoomProbe' = [who |-> "extractor", at |-> <<mouseX, mouseY>>,
                         from |-> xtransform, to |-> next]
  /\ nOps' = nOps + 1
  /\ UNCHANGED <<pathVars, extractVars, appVars, editVars, envVars, histVars>>
  /\ UNCHANGED <<xIsPanning, isDragging, startPos>>

\* CharacterExtractor lines 88-106: e.pan stands for button 2 or the shift key.
handleMouseDown(e) ==
  /\ ExtractorMounted /\ MayAct
  /\ IF e.pan
     THEN /\ xIsPanning' = TRUE
          /\ startPos' = [x |-> RSub(RInt(e.clientX), xtransform.x),
                          y |-> RSub(RInt(e.clientY), xtransform.y)]
          /\ UNCHANGED <<selection, isDragging>>
     ELSE LET at == ToModel(xtransform, e.clientX - xview.left, e.clientY - xview.top)
          IN /\ startPos' = [x |-> at[1], y |-> at[2]]
             /\ selection' = [x |-> at[1], y |-> at[2],
                              width |-> <<0, 1>>, height |-> <<0, 1>>]
             /\ isDragging' = TRUE
             /\ UNCHANGED xIsPanning
  /\ pointer' = [x |-> e.clientX, y |-> e.clientY]
  /\ nOps' = nOps + 1
  /\ UNCHANGED <<pathVars, appVars, editVars, pageVars, imageVars, zoomProbe, histVars,
                 xtransform>>
  /\ UNCHANGED <<natScale, region, threshold, canvas, tpc, foundStart, start, p, b,
                 steps, tpoints, loopExit, simplified>>

\* CharacterExtractor lines 108-129.
Extractor_handleMouseMove(e) ==
  /\ ExtractorMounted /\ MayAct
  /\ IF xIsPanning
     THEN /\ xtransform' = [xtransform EXCEPT
                              !.x = RSub(RInt(e.clientX), startPos.x),
                              !.y = RSub(RInt(e.clientY), startPos.y)]
          /\ UNCHANGED selection
     ELSE IF ~isDragging
     THEN UNCHANGED <<xtransform, selection>>
     ELSE LET cur == ToModel(xtransform, e.clientX - xview.left, e.clientY - xview.top)
          IN /\ selection' = [x |-> RMin(startPos.x, cur[1]),
                              y |-> RMin(startPos.y, cur[2]),
                              width |-> RAbs(RSub(cur[1], startPos.x)),
                              height |-> RAbs(RSub(cur[2], startPos.y))]
             /\ UNCHANGED xtransform
  /\ pointer' = IF xIsPanning THEN [x |-> e.clientX, y |-> e.clientY] ELSE pointer
  /\ nOps' = nOps + 1
  /\ UNCHANGED <<pathVars, appVars, editVars, pageVars, imageVars, zoomProbe, histVars>>
  /\ UNCHANGED <<xIsPanning, isDragging, startPos>>
  /\ UNCHANGED <<natScale, region, threshold, canvas, tpc, foundStart, start, p, b,
                 steps, tpoints, loopExit, simplified>>

\* CharacterExtractor lines 131-134 (mouse up, and the pointer leaving the container).
\* A release that ends the selection drag and leaves panning as it was.
Extractor_handleMouseUpKeepPan ==
  /\ ExtractorMounted /\ MayAct
  /\ isDragging' = FALSE
  /\ UNCHANGED xIsPanning
  /\ nOps' = nOps + 1
  /\ UNCHANGED <<pathVars, extractVars, appVars, editVars, envVars, zoomProbe, histVars>>
  /\ UNCHANGED <<xtransform, startPos>>

Extractor_handleMouseUp ==
  /\ ExtractorMounted /\ MayAct
  /\ isDragging' = FALSE
  /\ xIsPanning' = FALSE
  /\ nOps' = nOps + 1
  /\ UNCHANGED <<pathVars, extractVars, appVars, editVars, envVars, zoomProbe, histVars>>
  /\ UNCHANGED <<xtransform, startPos>>

----------------------------------------------------------------------------
\* GlyphEditor.tsx: the point list, its history and the handlers that edit them.
\* Indices are the 0-based indices of the code; sequences are 1-based.

\* JSON has no NaN and no undefined: a NaN is written as null.
Null == 0 - 1000003

\* An array element that was never assigned, and a point made from one.
Hole == [x |-> Undefined, y |-> Undefined, type |-> "hole"]
IsHole(pt) == pt.type = "hole"

\* JSON.parse(JSON.stringify(points)): every number is written as text and read
\* back; a hole becomes null.
JsonNumber(v) ==
  IF v = NaN THEN Null
  ELSE IF v = Undefined \/ v = Null THEN v
  ELSE Number(NumStr(v))

JsonCopy(pts) ==
  [i \in 1..Len(pts) |->
     IF IsHole(pts[i]) THEN [x |-> Null, y |-> Null, type |-> "null"]
     ELSE [x |-> JsonNumber(pts[i].x), y |-> JsonNumber(pts[i].y), type |-> pts[i].type]]

\* A history that keeps one snapshot more.
LastEleven(h) == IF Len(h) <= 11 THEN h ELSE SubSeq(h, Len(h) - 10, Len(h))

\* prev.slice(-10)
LastTen(h) == IF Len(h) <= 10 THEN h ELSE SubSeq(h, Len(h) - 9, Len(h))

\* Lines 109-111: the updater saveHistory passes to setHistory.
saveHistory(prev, pts) == Append(LastTen(prev), JsonCopy(pts))

\* The snapshot undo takes when it takes the oldest one.
OldestSnapshot(h) == h[1]

\* Line 115: history[history.length - 1]
LatestSnapshot(h) == h[Len(h)]

\* 0.75 * u + 0.25 * v on multiples of 1/Den, where the result is one.
\* A blend at the middle of the edge.
BlendMiddle(u, v) == (2 * u + 2 * v) \div 4

\* 0.75 * u + 0.25 * v
Blend(u, v) == (3 * u + v) \div 4
Blendable(u, v) == IsNum(u) /\ IsNum(v) /\ (3 * u + v) % 4 = 0

\* Lines 58-76.
RECURSIVE SmoothFrom(_, _)
SmoothFrom(pts, i) ==
  IF i > Len(pts) THEN <<>>
  ELSE LET curr == pts[i]
           next == pts[(i % Len(pts)) + 1]
       IN << Point(Blend(curr.x, next.x), Blend(curr.y, next.y)),
             Point(Blend(next.x, curr.x), Blend(next.y, curr.y)) >>
          \o SmoothFrom(pts, i + 1)

smoothPoints(pts) == IF Len(pts) < 3 THEN pts ELSE SmoothFrom(pts, 1)

\* The blends of a point list are all multiples of 1/Den.
Smoothable(pts) ==
  \A i \in 1..Len(pts) :
    LET curr == pts[i]
        next == pts[(i % Len(pts)) + 1]
    IN /\ Blendable(curr.x, next.x) /\ Blendable(next.x, curr.x)
       /\ Blendable(curr.y, next.y) /\ Blendable(next.y, curr.y)

\* Line 215: pts.filter((_, i) => i !== idx)
\* A filter that drops the point after the one that was clicked.
RemoveAtNext(pts, idx) ==
  IF idx >= Len(pts) THEN pts
  ELSE [i \in 1..(Len(pts) - 1) |-> IF i <= idx + 1 THEN pts[i] ELSE pts[i + 1]]

RemoveAt(pts, idx) ==
  IF idx >= Len(pts) THEN pts
  ELSE [i \in 1..(Len(pts) - 1) |-> IF i <= idx THEN pts[i] ELSE pts[i + 1]]

\* Line 227: pts.filter((_, i) => i % 2 === 0)
\* A filter that keeps the points at the odd indices.
OddIndexed(pts) == [i \in 1..(Len(pts) \div 2) |-> pts[2 * i]]

\* Line 227: pts.filter((_, i) => i % 2 === 0), on 0-based indices.
EvenIndexed(pts) == [i \in 1..((Len(pts) + 1) \div 2) |-> pts[2 * i - 1]]

\* Line 214: points.length > 3
CanDeleteFromTwo(pts) == Len(pts) > 2
CanDelete(pts) == Len(pts) > 3

\* Lines 191-195: newPts[dragIdx] = {...newPts[dragIdx], x, y} on a copy.
\* An index past the end lengthens the array and leaves holes in between.
DragTo(pts, idx, x, y) ==
  IF idx < Len(pts)
  THEN [pts EXCEPT ![idx + 1] =
          IF IsHole(@) THEN [x |-> x, y |-> y, type |-> "absent"]
          ELSE [@ EXCEPT !.x = x, !.y = y]]
  ELSE [i \in 1..(idx + 1) |->
          IF i <= Len(pts) THEN pts[i]
          ELSE IF i = idx + 1 THEN [x |-> x, y |-> y, type |-> "absent"]
          ELSE Hole]

\* A fraction as a multiple of 1/Den, where it is one.
OnGrid(q) == (q[1] * Den) % q[2] = 0
Fixed(q) == (q[1] * Den) \div q[2]

\* Rendering reads p.x of every element pointsToPath visits (line 344).
RenderThrows(pts) == \E i \in 1..Len(pts) : IsHole(pts[i])

\* What an editor event leaves alone besides the editor's own state.
exceptEdit == <<pathVars, extractVars, appVars, xviewVars, envVars, zoomProbe>>

\* Bookkeeping of an event that pushes a snapshot: the points under the oldest
\* snapshot of a history that was empty, the snapshots lost since, and the
\* lengths of the current run of pushes and of the undos after it.
NotePush ==
  /\ lastOp' = "push"
  /\ hbase' = IF history = <<>> THEN points ELSE hbase
  /\ hdropped' = IF history = <<>> THEN 0
                 ELSE IF Len(history) > 10 THEN hdropped + 1 ELSE hdropped
  /\ hActs' = IF hUndos > 0 THEN 1 ELSE hActs + 1
  /\ hUndos' = 0

Note(op) ==
  /\ lastOp' = op
  /\ UNCHANGED <<hbase, hdropped, hActs, hUndos>>

NoteFresh ==
  /\ lastOp' = "other"
  /\ hbase' = <<>>
  /\ hdropped' = 0
  /\ hActs' = 0
  /\ hUndos' = 0

\* vectoriseSelection is not in the middle of a run.
ExtractorAtRest == tpc \in {"off", "idle", "done"}

\* App.tsx lines 60-62 and the render it causes; GlyphEditor lines 79-107.
\* A first glyph mounts the editor, another glyph re-runs the effect in the
\* mounted editor, the same glyph changes nothing.
StartEditGlyph(glyph) ==
  /\ ~crashed /\ MayAct /\ ExtractorAtRest
  /\ editingGlyph' = glyph
  /\ IF editingGlyph = NoGlyph
     THEN /\ points' = parsePath(glyph.svgPath)
          /\ etransform' = EditorFit(glyph, eview)
          /\ history' = <<>>
          /\ dragIdx' = NoDrag
          /\ isPanning' = FALSE
          /\ lastMousePos' = [x |-> 0, y |-> 0]
          /\ crashed' = RenderThrows(points')
          /\ NoteFresh
     ELSE IF editingGlyph = glyph
     THEN /\ UNCHANGED <<points, etransform, history, dragIdx, isPanning,
                         lastMousePos, crashed>>
          /\ Note("other")
     ELSE /\ points' = parsePath(glyph.svgPath)
          /\ etransform' = EditorFit(glyph, eview)
          /\ crashed' = RenderThrows(points')
          /\ UNCHANGED <<history, dragIdx, isPanning, lastMousePos>>
          /\ Note("other")
  /\ nOps' = nOps + 1
  /\ UNCHANGED exceptEdit

\* Lines 163-167.
handleNodeMouseDown(idx) ==
  /\ EditorMounted /\ MayAct
  /\ idx \in 0..(Len(points) - 1)
  /\ history' = saveHistory(history, points)
  /\ dragIdx' = idx
  /\ NotePush
  /\ nOps' = nOps + 1
  /\ UNCHANGED <<editingGlyph, points, isPanning, lastMousePos, etransform, crashed>>
  /\ UNCHANGED exceptEdit

\* Lines 174-200. The pointer is where the point under it is a multiple of 1/Den.
Editor_handleMouseMove(e) ==
  /\ EditorMounted /\ MayAct
  /\ IF isPanning
     THEN /\ etransform' =
               [etransform EXCEPT
                  !.x = RAdd(@, RInt(e.clientX - lastMousePos.x)),
                  !.y = RAdd(@, RInt(e.clientY - lastMousePos.y))]
          /\ lastMousePos' = [x |-> e.clientX, y |-> e.clientY]
          /\ UNCHANGED <<points, crashed>>
     ELSE IF dragIdx # NoDrag
     THEN LET loc == ToModel(AsView(etransform), e.clientX - eview.left,
                             e.clientY - eview.top)
          IN /\ OnGrid(loc[1]) /\ OnGrid(loc[2])
             /\ points' = DragTo(points, dragIdx, Fixed(loc[1]), Fixed(loc[2]))
             /\ crashed' = RenderThrows(points')
             /\ UNCHANGED <<etransform, lastMousePos>>
     ELSE UNCHANGED <<points, crashed, etransform, lastMousePos>>
  /\ Note("other")
  /\ nOps' = nOps + 1
  /\ UNCHANGED <<editingGlyph, history, dragIdx, isPanning>>
  /\ UNCHANGED exceptEdit

\* Lines 202-205 (mouse up, and the pointer leaving the canvas).
Editor_handleMouseUp ==
  /\ EditorMounted /\ MayAct
  /\ dragIdx' = NoDrag
  /\ isPanning' = FALSE
  /\ Note("other")
  /\ nOps' = nOps + 1
  /\ UNCHANGED <<editingGlyph, points, history, lastMousePos, etransform, crashed>>
  /\ UNCHANGED exceptEdit

\* Lines 212-217.
handleDoubleClickNode(idx) ==
  /\ EditorMounted /\ MayAct
  /\ idx \in 0..(Len(points) - 1)
  /\ history' = saveHistory(history, points)
  /\ points' = IF CanDelete(points) THEN RemoveAt(points, idx) ELSE points
  /\ NotePush
  /\ nOps' = nOps + 1
  /\ UNCHANGED <<editingGlyph, dragIdx, isPanning, lastMousePos, etransform, crashed>>
  /\ UNCHANGED exceptEdit

\* Lines 219-222, on point lists whose blends are multiples of 1/Den.
handleSmooth ==
  /\ EditorMounted /\ MayAct
  /\ Smoothable(points)
  /\ history' = saveHistory(history, points)
  /\ points' = smoothPoints(points)
  /\ NotePush
  /\ nOps' = nOps + 1
  /\ UNCHANGED <<editingGlyph, dragIdx, isPanning, lastMousePos, etransform, crashed>>
  /\ UNCHANGED exceptEdit

\* Lines 224-229.
handleSimplify ==
  /\ EditorMounted /\ MayAct
  /\ history' = saveHistory(history, points)
  /\ points' = IF Len(points) > 6 THEN EvenIndexed(points) ELSE points
  /\ NotePush
  /\ nOps' = nOps + 1
  /\ UNCHANGED <<editingGlyph, dragIdx, isPanning, lastMousePos, etransform, crashed>>
  /\ UNCHANGED exceptEdit

\* Lines 113-118.
handleUndo ==
  /\ EditorMounted /\ MayAct
  /\ IF Len(history) = 0
     THEN /\ UNCHANGED <<points, history, crashed>>
          /\ Note("undo")
     ELSE /\ points' = LatestSnapshot(history)
          /\ history' = SubSeq(history, 1, Len(history) - 1)
          /\ crashed' = RenderThrows(points')
          /\ lastOp' = "undo"
          /\ hUndos' = hUndos + 1
          /\ UNCHANGED <<hbase, hdropped, hActs>>
  /\ nOps' = nOps + 1
  /\ UNCHANGED <<editingGlyph, dragIdx, isPanning, lastMousePos, etransform>>
  /\ UNCHANGED exceptEdit

\* The editor goes away and the extractor is mounted anew: useState's initial
\* values, then resetView once the image is there (CharacterExtractor lines 23-46).
CloseEditor ==
  /\ editingGlyph' = NoGlyph
  /\ points' = <<>>
  /\ history' = <<>>
  /\ dragIdx' = NoDrag
  /\ isPanning' = FALSE
  /\ lastMousePos' = [x |-> 0, y |-> 0]
  /\ etransform' = [x |-> <<0, 1>>, y |-> <<0, 1>>, k |-> <<1, 1>>]
  /\ UNCHANGED crashed
  /\ selection' = NoSelection
  /\ threshold' = 128
  /\ xtransform' = ResetTransform(xview, imgNat)
  /\ xIsPanning' = FALSE
  /\ isDragging' = FALSE
  /\ startPos' = [x |-> <<0, 1>>, y |-> <<0, 1>>]
  /\ NoteFresh
  /\ UNCHANGED <<natScale, region, canvas, tpc, foundStart, start, p, b, steps,
                 tpoints, loopExit, simplified>>
  /\ UNCHANGED <<pathVars, envVars, zoomProbe, clock>>

\* Lines 207-210 and App.tsx lines 64-67.
\* An update that writes the edited glyph over every glyph.
handleSaveGlyphEvery(prev, updatedGlyph) ==
  [i \in 1..Len(prev) |-> updatedGlyph]

\* App.tsx line 65: the updater handleSaveGlyph passes to setGlyphs.
handleSaveGlyph(prev, updatedGlyph) ==
  [i \in 1..Len(prev) |->
     IF prev[i].id = updatedGlyph.id THEN updatedGlyph ELSE prev[i]]

handleSave ==
  /\ EditorMounted /\ MayAct
  /\ LET updatedGlyph == [editingGlyph EXCEPT !.svgPath = pointsToPath(points)]
     IN glyphs' = handleSaveGlyph(glyphs, updatedGlyph)
  /\ CloseEditor
  /\ nOps' = nOps + 1

\* App.tsx line 107.
onClose ==
  /\ EditorMounted /\ MayAct
  /\ UNCHANGED glyphs
  /\ CloseEditor
  /\ nOps' = nOps + 1

----------------------------------------------------------------------------
\* Specification SpecView: zooming, fitting and panning the two viewports.

\* Events one run may take.
MaxViewOps == 4

\* A pixel triangle as vectoriseSelection writes it.
TrianglePath ==
  <<"M", "2", " ", "1", "L", "9", " ", "1", "L", "9", " ", "8", "Z">>

\* Glyphs of a small, a large and a page-sized selection.
ViewGlyphs ==
  { [id |-> <<"1">>, svgPath |-> TrianglePath, width |-> sz[1], height |-> sz[2],
     name |-> <<"G">>] : sz \in {<<12, 10>>, <<1200, 560>>, <<9960, 7960>>} }

\* Natural sizes of a small image, a wide one and a scanned page.
ViewImages == { [w |-> 400, h |-> 300], [w |-> 1400, h |-> 500], [w |-> 8000, h |-> 6000] }

\* Client size and client origin of the editor's svg and of the extractor's
\* container on the page.
EditorView == [w |-> 800, h |-> 600, left |-> 16, top |-> 64]
ExtractorView == [w |-> 700, h |-> 500, left |-> 24, top |-> 120]

\* Pointer positions in client coordinates.
ClientPoints == { <<40, 150>>, <<416, 364>> }

WheelEvents ==
  { [clientX |-> c[1], clientY |-> c[2], deltaY |-> dy] :
      c \in ClientPoints, dy \in {0 - 100, 100} }

MouseEvents ==
  { [clientX |-> c[1], clientY |-> c[2], pan |-> pn] :
      c \in ClientPoints, pn \in BOOLEAN }

\* Scales at which the clamp holds a viewport after the zoom buttons were
\* pressed often enough (the buttons leave the translation alone).
ClampedScales == {<<10, 1>>, <<1, 10>>}

\* The extractor as it is mounted, or as the zoom buttons left it after the image
\* was loaded; or the editor as the zoom buttons left it after it was opened.
InitView ==
  /\ PathIdle /\ ExtractIdle
  /\ clock = 0
  /\ eview = EditorView
  /\ xview = ExtractorView
  /\ imgNat \in ViewImages
  /\ opLimit = MaxViewOps
  /\ ImageIdle
  /\ pointer = NoPointer
  /\ nOps = 0
  /\ zoomProbe = NoProbe
  /\ lastOp = "none" /\ hbase = <<>> /\ hdropped = 0 /\ hActs = 0 /\ hUndos = 0
  /\ \E g \in ViewGlyphs :
       /\ glyphs = <<g>>
       /\ \/ /\ EditIdle
             /\ XViewIdle
          \/ /\ EditIdle
             /\ xtransform \in {[ResetTransform(xview, imgNat) EXCEPT !.scale = sc] :
                                  sc \in ClampedScales}
             /\ xIsPanning = FALSE
             /\ isDragging = FALSE
             /\ startPos = [x |-> <<0, 1>>, y |-> <<0, 1>>]
          \/ /\ XViewIdle
             /\ editingGlyph = g
             /\ points = parsePath(g.svgPath)
             /\ history = <<>>
             /\ dragIdx = NoDrag
             /\ isPanning = FALSE
             /\ lastMousePos = [x |-> 0, y |-> 0]
             /\ etransform \in {[EditorFit(g, eview) EXCEPT !.k = k] : k \in ClampedScales}
             /\ crashed = FALSE

NextView ==
  \/ \E i \in 1..Len(glyphs) : StartEditGlyph(glyphs[i])
  \/ onClose
  \/ \E f \in {<<9, 10>>, <<11, 10>>} : Editor_handleZoom(f)
  \/ handleFitScreen
  \/ \E e \in WheelEvents : Editor_handleWheel(e)
  \/ \E e \in MouseEvents : handleCanvasMouseDown(e)
  \/ \E e \in MouseEvents : Editor_handleMouseMove(e)
  \/ Editor_handleMouseUp
  \/ \E f \in {<<6, 5>>, <<5, 6>>} : Extractor_handleZoom(f)
  \/ resetView
  \/ \E e \in WheelEvents : Extractor_handleWheel(e)
  \/ \E e \in MouseEvents : handleMouseDown(e)
  \/ \E e \in MouseEvents : Extractor_handleMouseMove(e)
  \/ Extractor_handleMouseUp

SpecView == InitView /\ [][NextView]_vars

\* C7: a wheel zoom at a screen point leaves the model point under that screen
\* point where it was, in the editor and in the extractor, also when the new
\* scale was clamped.
C7_ZoomToCursor ==
  zoomProbe.who # "none" =>
    ToModel(zoomProbe.from, zoomProbe.at[1], zoomProbe.at[2])
      = ToModel(zoomProbe.to, zoomProbe.at[1], zoomProbe.at[2])

\* A wheel zoom whose scale was held by the clamp, after an earlier wheel zoom.
C7_Witness ==
  /\ zoomProbe.who = "extractor"
  /\ zoomProbe.to.scale = <<10, 1>>
  /\ RLt(<<9, 1>>, zoomProbe.from.scale)
  /\ zoomProbe.from.scale # <<10, 1>>

\* C8: the scale of the editor's viewport and of the extractor's viewport is
\* never below 0.1 and never above 10.
InRange(sc) == RLe(<<1, 10>>, sc) /\ RLe(sc, <<10, 1>>)
C8_ScaleClamp == InRange(etransform.k) /\ InRange(xtransform.scale)

----------------------------------------------------------------------------
\* Specification SpecEdit: a glyph is extracted from a selection, opened in the
\* editor, edited, and saved or closed and opened again.

\* Events one run may take after the extraction.
MaxEditOps == 6

Plus == {<<1, 0>>, <<0, 1>>, <<1, 1>>, <<2, 1>>, <<1, 2>>}

EditRasters ==
  { Raster(6, 6, Shift(Pixels(4, 4), 1, 1)),
    Raster(5, 5, Shift(Plus, 1, 1)) }

\* The nodes a pointer event is tried on: the first two and the last.
NodePicks(pts) == {0, 1, Len(pts) - 1} \cap (0..(Len(pts) - 1))

DragEvents == { [clientX |-> c[1], clientY |-> c[2]] : c \in ClientPoints }

InitEdit ==
  /\ region \in EditRasters
  /\ natScale = <<1, 1>>
  /\ selection = SelectionOver(region, natScale)
  /\ threshold = 128
  /\ canvas = NoCanvas
  /\ tpc = "idle"
  /\ foundStart = FALSE
  /\ start = NoPixel
  /\ p = NoPixel
  /\ b = NoPixel
  /\ steps = 0
  /\ tpoints = <<>>
  /\ loopExit = "none"
  /\ simplified = <<>>
  /\ glyphs = <<>>
  /\ clock = 123456
  /\ PathIdle
  /\ EditIdle
  /\ eview = EditorView
  /\ xview = ExtractorView
  /\ imgNat = [w |-> region.w, h |-> region.h]
  /\ xtransform = ResetTransform(xview, imgNat)
  /\ xIsPanning = FALSE
  /\ isDragging = FALSE
  /\ startPos = [x |-> <<0, 1>>, y |-> <<0, 1>>]
  /\ opLimit = MaxEditOps
  /\ ImageIdle
  /\ pointer = NoPointer
  /\ nOps = 0
  /\ zoomProbe = NoProbe
  /\ lastOp = "none" /\ hbase = <<>> /\ hdropped = 0 /\ hActs = 0 /\ hUndos = 0

NextEdit ==
  \/ VectoriseBegin
  \/ ScanStart
  \/ TraceStep
  \/ RemoveCollinear
  \/ EmitGlyph
  \/ \E i \in 1..Len(glyphs) : StartEditGlyph(glyphs[i])
  \/ \E idx \in NodePicks(points) : handleNodeMouseDown(idx)
  \/ \E e \in DragEvents : Editor_handleMouseMove(e)
  \/ Editor_handleMouseUp
  \/ \E idx \in NodePicks(points) : handleDoubleClickNode(idx)
  \/ handleSmooth
  \/ handleSimplify
  \/ handleUndo
  \/ handleSave
  \/ onClose

SpecEdit == InitEdit /\ [][NextEdit]_vars

\* C2: whatever is extracted, opened, moved, deleted, smoothed, simplified,
\* undone, saved and opened again, the editor's point list is empty or has at
\* least 3 points.
C2_PointCount == Len(points) = 0 \/ Len(points) >= 3

\* A deletion took a 4-point outline to 3 points and the next deletion or
\* simplification was refused.
C2_Witness ==
  /\ Len(points) = 3
  /\ lastOp = "push"
  /\ Len(history) >= 2
  /\ Len(history[Len(history)]) = 3
  /\ Len(history[Len(history) - 1]) = 4

----------------------------------------------------------------------------
\* Specification SpecHist: long runs of presses, deletions and undos on the
\* first node of a 5-point outline, in an editor that was just opened.

\* Events one run may take.
MaxHistOps == 27

\* The outline vectoriseSelection writes for the 4x4 square.
SquarePath ==
  <<"M", "1", " ", "1", "L", "4", " ", "1", "L", "4", " ", "4", "L", "1", " ", "4",
    "L", "1", " ", "2", "Z">>

SquareGlyph ==
  [id |-> <<"1", "2", "3", "4", "5", "6">>, svgPath |-> SquarePath, width |-> 6,
   height |-> 6, name |-> <<"G", "l", "y", "p", "h", " ", "3", "4", "5", "6">>]

InitHist ==
  /\ PathIdle /\ ExtractIdle /\ XViewIdle
  /\ glyphs = <<SquareGlyph>>
  /\ clock = 123456
  /\ eview = EditorView
  /\ xview = ExtractorView
  /\ imgNat = [w |-> 6, h |-> 6]
  /\ editingGlyph = SquareGlyph
  /\ points = parsePath(SquareGlyph.svgPath)
  /\ history = <<>>
  /\ dragIdx = NoDrag
  /\ isPanning = FALSE
  /\ lastMousePos = [x |-> 0, y |-> 0]
  /\ etransform = EditorFit(SquareGlyph, eview)
  /\ crashed = FALSE
  /\ opLimit = MaxHistOps
  /\ ImageIdle
  /\ pointer = NoPointer
  /\ nOps = 0
  /\ zoomProbe = NoProbe
  /\ lastOp = "none" /\ hbase = <<>> /\ hdropped = 0 /\ hActs = 0 /\ hUndos = 0

NextHist ==
  \/ handleNodeMouseDown(0)
  \/ handleDoubleClickNode(0)
  \/ handleUndo

SpecHist == InitHist /\ [][NextHist]_vars

\* C5: the history never holds more than 11 snapshots; a push onto 11 snapshots
\* drops the oldest one; and after a run of 15 or more pushing events, undo takes
\* a snapshot exactly 11 times and changes nothing from then on.
C5_HistoryBound ==
  /\ [](Len(history) <= 11)
  /\ [](hActs >= 15 => (hUndos <= 11 /\ Len(history) = 11 - hUndos))
  /\ [][ nOps' # nOps =>
           /\ (lastOp' = "push" /\ Len(history) = 11) =>
                history' = Append(Tail(history), points)
           /\ (lastOp' = "undo" /\ hActs >= 15 /\ hUndos = 11) =>
                (points' = points /\ history' = history) ]_vars

\* Fifteen pushes, eleven undos, and a twelfth undo that found nothing to take.
C5_Witness ==
  /\ hActs >= 15
  /\ hUndos = 11
  /\ history = <<>>
  /\ lastOp = "undo"
  /\ nOps = 27

----------------------------------------------------------------------------
\* Claims about the outcome of one extraction (SpecTrace).

\* vectoriseSelection ran to its end on a selection it did not reject.
ExtractionDone == tpc = "done" /\ canvas # NoCanvas

\* C11 as stated, the traced sequence being the tracer's output: an accepted
\* extraction creates no glyph when the raw trace has 2 or fewer points and
\* exactly one glyph when it has more than 2.
C11_GlyphIffRawTrace ==
  ExtractionDone =>
    /\ Len(tpoints) <= 2 => glyphs = <<>>
    /\ Len(tpoints) > 2 => Len(glyphs) = 1

\* C11 amended: an accepted extraction creates no glyph when 2 or fewer points
\* are left after the collinearity pass and exactly one glyph, holding the path
\* of those points, when more than 2 are left.
C11_GlyphIffSimplified ==
  ExtractionDone =>
    /\ Len(simplified) <= 2 => glyphs = <<>>
    /\ Len(simplified) > 2 =>
         /\ Len(glyphs) = 1
         /\ glyphs[1].svgPath # <<>>

\* A raw trace of more than 2 points of which 2 are left, and no glyph.
C11_Witness ==
  /\ ExtractionDone
  /\ Len(tpoints) > 2
  /\ Len(simplified) = 2
  /\ glyphs = <<>>

\* C12: when the selected region holds no foreground pixel at the threshold, the
\* trace is empty, no glyph is created, and no step of the extraction changes
\* the glyph collection or the selection rectangle.
C12_EmptySelection ==
  /\ []((ExtractionDone /\ Foreground(region, threshold) = {}) =>
          (tpoints = <<>> /\ glyphs = <<>> /\ selection # NoSelection))
  /\ [][Foreground(region, threshold) = {} =>
          (glyphs' = glyphs /\ selection' = selection)]_vars

\* An extraction that ran over a region without foreground.
C12_Witness ==
  /\ ExtractionDone
  /\ Foreground(region, threshold) = {}
  /\ ~foundStart
  /\ selection = SelectionOver(region, natScale)

----------------------------------------------------------------------------
\* SpecSelect: a selection is dragged out on the extractor at several zoom
\* levels and the "Extract Glyph" button is pressed.

MaxSelectOps == 5

\* A 3x3 blob of ink one pixel inside the corner where the drag starts.
SelectRaster == Raster(6, 6, Shift(Pixels(3, 3), 1, 1))

\* The press that starts the drag, and the places the pointer is moved to:
\* 8 or 16 client pixels to the right and 4, 5 or 6 client pixels down.
SelectDown == [clientX |-> 224, clientY |-> 320, pan |-> FALSE]

SelectMoves ==
  { [clientX |-> SelectDown.clientX + dx, clientY |-> SelectDown.clientY + dy,
     pan |-> FALSE] : dx \in {8, 16}, dy \in {4, 5, 6} }

\* CharacterExtractor line 412: the button is rendered for a selection wider
\* than 10.
ExtractShown ==
  ExtractorMounted /\ selection # NoSelection /\ RLt(RInt(10), selection.width)

\* A click on the button (line 424).
ExtractClick == ExtractShown /\ VectoriseBegin

InitSelect ==
  /\ region = SelectRaster
  /\ natScale = <<1, 1>>
  /\ selection = NoSelection
  /\ threshold = 128
  /\ canvas = NoCanvas
  /\ tpc = "idle"
  /\ foundStart = FALSE
  /\ start = NoPixel
  /\ p = NoPixel
  /\ b = NoPixel
  /\ steps = 0
  /\ tpoints = <<>>
  /\ loopExit = "none"
  /\ simplified = <<>>
  /\ glyphs = <<>>
  /\ clock = 123456
  /\ PathIdle
  /\ EditIdle
  /\ eview = EditorView
  /\ xview = ExtractorView
  /\ imgNat = [w |-> 400, h |-> 300]
  /\ xtransform = ResetTransform(xview, imgNat)
  /\ xIsPanning = FALSE
  /\ isDragging = FALSE
  /\ startPos = [x |-> <<0, 1>>, y |-> <<0, 1>>]
  /\ opLimit = MaxSelectOps
  /\ ImageIdle
  /\ pointer = NoPointer
  /\ nOps = 0
  /\ zoomProbe = NoProbe
  /\ lastOp = "none" /\ hbase = <<>> /\ hdropped = 0 /\ hActs = 0 /\ hUndos = 0

NextSelect ==
  \/ \E f \in {<<6, 5>>, <<5, 6>>} : ExtractorAtRest /\ Extractor_handleZoom(f)
  \/ ExtractorAtRest /\ handleMouseDown(SelectDown)
  \/ \E e \in SelectMoves : ExtractorAtRest /\ Extractor_handleMouseMove(e)
  \/ ExtractorAtRest /\ Extractor_handleMouseUp
  \/ ExtractClick
  \/ ScanStart
  \/ TraceStep
  \/ RemoveCollinear
  \/ EmitGlyph

SpecSelect == InitSelect /\ [][NextSelect]_vars

\* Width and height of the selection as drawn on the screen (lines 397-410).
DisplayWidth == RMul(selection.width, xtransform.scale)
DisplayHeight == RMul(selection.height, xtransform.scale)

\* The click on the button gets past the guard of line 137.
SelectionAccepted == ENABLED (ExtractClick /\ tpc' = "scan")

----------------------------------------------------------------------------
\* Claims about single editing events (SpecSession).

\* C14: a double click on a node of a 3-point outline leaves the points as they
\* are; a double click on node idx of an outline of n >= 4 points leaves n - 1
\* points, the other points in the order they had.
C14_DeletePoint ==
  [][ \A idx \in 0..(Len(points) - 1) :
        handleDoubleClickNode(idx) =>
          /\ Len(points) = 3 => points' = points
          /\ Len(points) >= 4 =>
               /\ Len(points') = Len(points) - 1
               /\ \A j \in 1..Len(points') :
                    points'[j] = IF j <= idx THEN points[j] ELSE points[j + 1]
               /\ \A j \in 1..Len(points) :
                    j # idx + 1 => \E k \in 1..Len(points') : points'[k] = points[j] ]_vars

\* The second node of an outline of five or more points was deleted, and
\* later a node of a 3-point outline was double clicked.
C14_Witness ==
  /\ lastOp = "push"
  /\ Len(points) = 3
  /\ Len(history) >= 3
  /\ history[Len(history)] = points
  /\ \E h \in 1..(Len(history) - 1) :
       /\ Len(history[h]) >= 5
       /\ Len(history[h + 1]) = Len(history[h]) - 1
       /\ history[h + 1][1] = history[h][1]
       /\ history[h + 1][2] = history[h][3]

----------------------------------------------------------------------------
\* SpecParse: parsePath on path descriptions with commands of every kind.

\* Most commands in a description.
MaxCommands == 3

PathCommands ==
  { <<"M", "0", " ", "0">>,
    <<"L", "8", " ", "0">>,
    <<"L", "8", " ", "6">>,
    <<"H", "4">>,
    <<"V", "6">>,
    <<"Q", "8", " ", "0", " ", "8", " ", "6">>,
    <<"C", "1", " ", "1", " ", "2", " ", "2", " ", "3", " ", "3">>,
    <<"A", "5", " ", "5", " ", "0", " ", "0", " ", "1", " ", "8", " ", "6">>,
    <<"Z">> }

RECURSIVE JoinCommands(_)
JoinCommands(cmds) ==
  IF cmds = <<>> THEN <<>>
  ELSE IF Len(cmds) = 1 THEN cmds[1]
  ELSE cmds[1] \o <<" ">> \o JoinCommands(Tail(cmds))

PathTexts ==
  { JoinCommands(cmds) : cmds \in UNION { [1..n -> PathCommands] : n \in 0..MaxCommands } }

InitParse ==
  /\ ppc = "text"
  /\ ppoints = <<>>
  /\ pstr \in PathTexts
  /\ pparsed = <<>>
  /\ ExtractIdle
  /\ AppIdle
  /\ EditIdle /\ XViewIdle /\ EnvIdle /\ BookIdle

SpecParse == InitParse /\ [][Parse]_vars

\* The command characters of a description that are neither M nor L.
ForeignCommands(d) == { d[i] : i \in 1..Len(d) } \cap (Letters \ {"M", "L"})

\* C15: parsePath does not return a point sequence for a description that
\* holds a command character other than M and L (a curve, an arc, a
\* one-coordinate line): the call ends in a reported failure instead.
C15_ForeignCommandFails ==
  ForeignCommands(pstr) \cap {"C", "Q", "H", "V", "A", "Z"} # {} => ppc # "parsed"

----------------------------------------------------------------------------
\* SpecIds: several extractions one after the other, glyphs deleted in
\* between, under a wall clock that the handlers only read.

MaxIdOps == 6

\* Milliseconds the clock may move away from its first reading.
MaxClockDrift == 2

FirstClock == 123456

\* Date.now() is the system's wall clock: time passes between events, and the
\* system may set its clock back.
ClockForward ==
  /\ clock < FirstClock + MaxClockDrift
  /\ ExtractorAtRest
  /\ clock' = clock + 1
  /\ UNCHANGED <<glyphs, pathVars, extractVars, editVars, xviewVars, envVars,
                 nOps, zoomProbe, histVars>>

ClockSetBack ==
  /\ clock > FirstClock - MaxClockDrift
  /\ ExtractorAtRest
  /\ clock' = clock - 1
  /\ UNCHANGED <<glyphs, pathVars, extractVars, editVars, xviewVars, envVars,
                 nOps, zoomProbe, histVars>>

RECURSIVE WithoutId(_, _)
WithoutId(gs, id) ==
  IF gs = <<>> THEN <<>>
  ELSE (IF Head(gs).id # id THEN <<Head(gs)>> ELSE <<>>) \o WithoutId(Tail(gs), id)

\* App.tsx lines 56-58.
handleDeleteGlyph(id) ==
  /\ MayAct /\ ExtractorAtRest
  /\ glyphs' = WithoutId(glyphs, id)
  /\ nOps' = nOps + 1
  /\ UNCHANGED <<clock, pathVars, extractVars, editVars, xviewVars, envVars,
                 zoomProbe, histVars>>

\* A later click on the button.
ExtractClickAgain == ExtractShown /\ VectoriseAgain

SelectMoveWide == [clientX |-> SelectDown.clientX + 16, clientY |-> SelectDown.clientY + 6,
                   pan |-> FALSE]

InitIds ==
  /\ region = SelectRaster
  /\ natScale = <<1, 1>>
  /\ selection = NoSelection
  /\ threshold = 128
  /\ canvas = NoCanvas
  /\ tpc = "idle"
  /\ foundStart = FALSE
  /\ start = NoPixel
  /\ p = NoPixel
  /\ b = NoPixel
  /\ steps = 0
  /\ tpoints = <<>>
  /\ loopExit = "none"
  /\ simplified = <<>>
  /\ glyphs = <<>>
  /\ clock = FirstClock
  /\ PathIdle
  /\ EditIdle
  /\ eview = EditorView
  /\ xview = ExtractorView
  /\ imgNat = [w |-> 400, h |-> 300]
  /\ xtransform = ResetTransform(xview, imgNat)
  /\ xIsPanning = FALSE
  /\ isDragging = FALSE
  /\ startPos = [x |-> <<0, 1>>, y |-> <<0, 1>>]
  /\ opLimit = MaxIdOps
  /\ ImageIdle
  /\ pointer = NoPointer
  /\ nOps = 0
  /\ zoomProbe = NoProbe
  /\ lastOp = "none" /\ hbase = <<>> /\ hdropped = 0 /\ hActs = 0 /\ hUndos = 0

NextIds ==
  \/ ClockForward
  \/ ClockSetBack
  \/ ExtractorAtRest /\ handleMouseDown(SelectDown)
  \/ ExtractorAtRest /\ Extractor_handleMouseMove(SelectMoveWide)
  \/ ExtractorAtRest /\ Extractor_handleMouseUp
  \/ ExtractClick
  \/ ExtractClickAgain
  \/ ScanStart
  \/ TraceStep
  \/ RemoveCollinear
  \/ EmitGlyph
  \/ \E i \in 1..Len(glyphs) : handleDeleteGlyph(glyphs[i].id)

SpecIds == InitIds /\ [][NextIds]_vars

\* C16: the glyphs of the collection have pairwise different ids.
C16_UniqueIds ==
  \A i, j \in 1..Len(glyphs) : i # j => glyphs[i].id # glyphs[j].id

----------------------------------------------------------------------------
\* SpecSession: glyphs of a collection are opened in the editor, edited, and
\* the editor is left with Save or with Close.

MaxSessionOps == 5

SessionTriangle ==
  [id |-> <<"1", "2", "3", "4", "5", "7">>, svgPath |-> TrianglePath, width |-> 12,
   height |-> 10, name |-> <<"G", "l", "y", "p", "h", " ", "3", "4", "5", "7">>]

\* A glyph of a second extraction that read the same clock value as the square's.
SessionTwin == [SquareGlyph EXCEPT !.svgPath = TrianglePath, !.width = 12, !.height = 10]

SessionCollections ==
  { <<SquareGlyph, SessionTriangle>>,
    <<SessionTriangle, SquareGlyph, [SessionTriangle EXCEPT !.id = <<"9">>]>>,
    <<SquareGlyph, SessionTwin, SessionTriangle>> }

InitSession ==
  /\ PathIdle /\ ExtractIdle /\ XViewIdle /\ EditIdle
  /\ glyphs \in SessionCollections
  /\ clock = 123456
  /\ eview = EditorView
  /\ xview = ExtractorView
  /\ imgNat = [w |-> 6, h |-> 6]
  /\ opLimit = MaxSessionOps
  /\ ImageIdle
  /\ pointer = NoPointer
  /\ nOps = 0
  /\ zoomProbe = NoProbe
  /\ lastOp = "none" /\ hbase = <<>> /\ hdropped = 0 /\ hActs = 0 /\ hUndos = 0

NextSession ==
  \/ \E i \in 1..Len(glyphs) : StartEditGlyph(glyphs[i])
  \/ \E idx \in NodePicks(points) : handleNodeMouseDown(idx)
  \/ \E e \in DragEvents : Editor_handleMouseMove(e)
  \/ Editor_handleMouseUp
  \/ \E idx \in NodePicks(points) : handleDoubleClickNode(idx)
  \/ handleUndo
  \/ handleSave
  \/ onClose
  \/ \E i \in 1..Len(glyphs) : handleDeleteGlyph(glyphs[i].id)

SpecSession == InitSession /\ [][NextSession]_vars

\* C17: Save hands back the glyph the editor was opened on with only its path
\* replaced by the serialization of the current points, and the collection
\* keeps its length and order and changes at no glyph of another id; Close
\* leaves the collection as it is.
C17_SessionBoundary ==
  [][ /\ handleSave =>
           /\ Len(glyphs') = Len(glyphs)
           /\ \A i \in 1..Len(glyphs) :
                IF glyphs[i].id = editingGlyph.id
                THEN /\ glyphs'[i].id = editingGlyph.id
                     /\ glyphs'[i].width = editingGlyph.width
                     /\ glyphs'[i].height = editingGlyph.height
                     /\ glyphs'[i].name = editingGlyph.name
                     /\ glyphs'[i].svgPath = pointsToPath(points)
                ELSE glyphs'[i] = glyphs[i]
           /\ editingGlyph' = NoGlyph
      /\ onClose => (glyphs' = glyphs /\ editingGlyph' = NoGlyph) ]_vars

\* An edited outline was saved into a collection that holds other glyphs too.
C17_Witness ==
  /\ editingGlyph = NoGlyph
  /\ lastOp = "other"
  /\ nOps >= 3
  /\ Len(glyphs) >= 2
  /\ \E i \in 1..Len(glyphs) :
       /\ glyphs[i].id = SquareGlyph.id
       /\ glyphs[i].width = SquareGlyph.width
       /\ glyphs[i].svgPath \notin {SquarePath, TrianglePath}
  /\ \E i \in 1..Len(glyphs) : glyphs[i] = SessionTriangle

----------------------------------------------------------------------------
\* SpecPointer: presses, moves, releases and pointer-leaves on the extractor's
\* container and on the editor's canvas and nodes.

MaxPointerOps == 7

PointerPresses ==
  { [clientX |-> 224, clientY |-> 320, pan |-> pn] : pn \in BOOLEAN }

PointerMove == [clientX |-> 416, clientY |-> 364, pan |-> FALSE]

InitPointer ==
  /\ PathIdle /\ ExtractIdle /\ XViewIdle /\ EditIdle
  /\ glyphs = <<SquareGlyph>>
  /\ clock = 123456
  /\ eview = EditorView
  /\ xview = ExtractorView
  /\ imgNat = [w |-> 400, h |-> 300]
  /\ opLimit = MaxPointerOps
  /\ ImageIdle
  /\ pointer = NoPointer
  /\ nOps = 0
  /\ zoomProbe = NoProbe
  /\ lastOp = "none" /\ hbase = <<>> /\ hdropped = 0 /\ hActs = 0 /\ hUndos = 0

NextPointer ==
  \/ \E e \in PointerPresses : handleMouseDown(e)
  \/ Extractor_handleMouseMove(PointerMove)
  \/ Extractor_handleMouseUp
  \/ StartEditGlyph(glyphs[1])
  \/ \E idx \in {0, 2} : handleNodeMouseDown(idx)
  \/ \E e \in PointerPresses : handleCanvasMouseDown(e)
  \/ Editor_handleMouseMove(PointerMove)
  \/ Editor_handleMouseUp
  \/ onClose

SpecPointer == InitPointer /\ [][NextPointer]_vars

\* C18: a release or a pointer-leave on the editor's canvas ends with no node
\* dragged and panning off, and one on the extractor's container ends with no
\* selection drag and panning off, whatever was going on before it.
C18_PointerReset ==
  [][ /\ Editor_handleMouseUp => (dragIdx' = NoDrag /\ ~isPanning')
      /\ Extractor_handleMouseUp => (~isDragging' /\ ~xIsPanning') ]_vars

\* A selection was dragged and released on the extractor, and in the editor a
\* node was pressed and the canvas was panned, and the last release left
\* nothing active.
C18_Witness ==
  /\ EditorMounted
  /\ selection # NoSelection /\ RLt(RInt(0), selection.width)
  /\ ~isDragging /\ ~xIsPanning
  /\ history # <<>>
  /\ lastMousePos # [x |-> 0, y |-> 0]
  /\ lastOp = "other"
  /\ dragIdx = NoDrag /\ ~isPanning

----------------------------------------------------------------------------
\* Claims about the start pixel and the collinearity pass (SpecTrace).

\* C19: the first traced point is the foreground pixel that comes first row by
\* row from the top and, within a row, from the left; every traced point lies in
\* the 8-connected component of that pixel; and one extraction adds at most one
\* glyph, however many components the selection holds.
C19_StartAndSingleComponent ==
  /\ [](tpoints # <<>> =>
          /\ isPixelOn(canvas, tpoints[1].x, tpoints[1].y, threshold)
          /\ \A q \in Foreground(canvas, threshold) :
               tpoints[1].y < q[2] \/ (tpoints[1].y = q[2] /\ tpoints[1].x <= q[1])
          /\ XYPairs(tpoints) \subseteq Component(canvas, threshold, tpoints[1]))
  /\ [](Len(glyphs) <= 1)
  /\ [][Len(glyphs') <= Len(glyphs) + 1]_vars

\* A selection with two components gave one glyph, traced from the first.
C19_Witness ==
  /\ ExtractionDone
  /\ Len(glyphs) = 1
  /\ Foreground(canvas, threshold) \ Component(canvas, threshold, tpoints[1]) # {}
  /\ \E q \in Foreground(canvas, threshold) : q[1] < tpoints[1].x

\* The interior points of a raw trace that are not on the line through the
\* raw points before and after them.
RECURSIVE RawCorners(_, _)
RawCorners(pts, i) ==
  IF i > Len(pts) - 1 THEN <<>>
  ELSE (IF Collinear(pts[i - 1], pts[i], pts[i + 1]) THEN <<>> ELSE <<pts[i]>>)
       \o RawCorners(pts, i + 1)

SimplifyDone == tpc \in {"emit", "done"} /\ canvas # NoCanvas

\* C20 as claimed: of a raw trace the collinearity pass keeps the first point,
\* then, in their order, exactly the interior points at which the cross product
\* of the raw edge into the point and the raw edge out of it is not zero, then
\* the last point.
C20_RawNeighbours ==
  (SimplifyDone /\ tpoints # <<>>) =>
    simplified = <<tpoints[1]>> \o RawCorners(tpoints, 2) \o <<tpoints[Len(tpoints)]>>

\* The indices up to i of the points the pass keeps: the first, and every
\* later one that is not on the line from the latest kept point before it to
\* the raw point after it.
RECURSIVE KeptIndices(_, _)
KeptIndices(pts, i) ==
  IF i <= 1 THEN {1}
  ELSE LET before == KeptIndices(pts, i - 1)
           prev == CHOOSE k \in before : \A j \in before : j <= k
       IN IF Collinear(pts[prev], pts[i], pts[i + 1]) THEN before
          ELSE before \cup {i}

RECURSIVE PointsAt(_, _, _)
PointsAt(pts, idx, i) ==
  IF i > Len(pts) THEN <<>>
  ELSE (IF i \in idx THEN <<pts[i]>> ELSE <<>>) \o PointsAt(pts, idx, i + 1)

\* C20, amended: the collinearity pass keeps the first and the last point of
\* the raw trace and, in their order, exactly the interior points at which the
\* cross product of the edge from the latest kept point to the point and the
\* raw edge out of the point is not zero.
C20_CollinearityRemoval ==
  (SimplifyDone /\ tpoints # <<>>) =>
    /\ simplified =
         PointsAt(tpoints, KeptIndices(tpoints, Len(tpoints) - 1), 1)
           \o <<tpoints[Len(tpoints)]>>
    /\ simplified[1] = tpoints[1]
    /\ simplified[Len(simplified)] = tpoints[Len(tpoints)]

\* A trace that walked out to a tip and back: the second visit of the point
\* before the tip is a corner of the raw trace and was dropped.
C20_Witness ==
  /\ SimplifyDone
  /\ Len(tpoints) >= 5
  /\ Len(simplified) >= 3
  /\ Len(simplified) < Len(RawCorners(tpoints, 2)) + 2

----------------------------------------------------------------------------
\* SpecShape: the editor is open on an outline that is smoothed, thinned out,
\* shortened by deleting nodes, and restored by undo.

MaxShapeOps == 5

InitShape ==
  /\ PathIdle /\ ExtractIdle /\ XViewIdle
  /\ glyphs = <<SquareGlyph, SessionTriangle>>
  /\ clock = 123456
  /\ eview = EditorView
  /\ xview = ExtractorView
  /\ imgNat = [w |-> 6, h |-> 6]
  /\ editingGlyph \in {SquareGlyph, SessionTriangle}
  /\ points = parsePath(editingGlyph.svgPath)
  /\ history = <<>>
  /\ dragIdx = NoDrag
  /\ isPanning = FALSE
  /\ lastMousePos = [x |-> 0, y |-> 0]
  /\ etransform = EditorFit(editingGlyph, eview)
  /\ crashed = FALSE
  /\ opLimit = MaxShapeOps
  /\ ImageIdle
  /\ pointer = NoPointer
  /\ nOps = 0
  /\ zoomProbe = NoProbe
  /\ lastOp = "none" /\ hbase = <<>> /\ hdropped = 0 /\ hActs = 0 /\ hUndos = 0

\* The longest outline Smooth is pressed on.
MaxSmoothLen == 8

NextShape ==
  \/ \E idx \in NodePicks(points) : handleDoubleClickNode(idx)
  \/ Len(points) <= MaxSmoothLen /\ handleSmooth
  \/ handleSimplify
  \/ handleUndo

SpecShape == InitShape /\ [][NextShape]_vars

\* C21: Simplify on more than 6 points leaves exactly the points at the even
\* 0-based indices, in their order (8 points become 4); on 6 or fewer points
\* it leaves the points as they are.
C21_Decimate ==
  [][ handleSimplify =>
        IF Len(points) > 6
        THEN /\ Len(points') = (Len(points) + 1) \div 2
             /\ \A j \in 0..(Len(points') - 1) : points'[j + 1] = points[2 * j + 1]
             /\ Len(points) = 8 => Len(points') = 4
        ELSE points' = points ]_vars

\* An outline of 8 points was thinned out to 4, and Simplify was pressed again
\* on the 4 points.
C21_Witness ==
  /\ lastOp = "push"
  /\ Len(points) = 4
  /\ Len(history) >= 2
  /\ history[Len(history)] = points
  /\ Len(history[Len(history) - 1]) = 8
  /\ \A j \in 1..4 : points[j] = history[Len(history) - 1][2 * j - 1]

----------------------------------------------------------------------------
\* SpecSmooth: smoothPoints on point sequences of every length up to
\* MaxPathLen.

InitSmooth ==
  /\ ppc = "points"
  /\ ppoints \in PathSeqs
  /\ pstr = <<>>
  /\ pparsed = <<>>
  /\ ExtractIdle
  /\ AppIdle
  /\ EditIdle /\ XViewIdle /\ EnvIdle /\ BookIdle

Smooth ==
  /\ ppc = "points"
  /\ Smoothable(ppoints)
  /\ pparsed' = smoothPoints(ppoints)
  /\ ppc' = "smoothed"
  /\ UNCHANGED <<ppoints, pstr, exceptPath>>

SpecSmooth == InitSmooth /\ [][Smooth]_vars

\* C22: smoothing N >= 3 points gives 2N points; the two points made from
\* point i (0-based) stand at 2i and 2i+1 and are 0.75*p[i] + 0.25*p[i+1 mod N]
\* and 0.25*p[i] + 0.75*p[i+1 mod N]; fewer than 3 points are left as they are.
C22_Smoothing ==
  ppc = "smoothed" =>
    IF Len(ppoints) >= 3
    THEN /\ Len(pparsed) = 2 * Len(ppoints)
         /\ \A i \in 0..(Len(ppoints) - 1) :
              LET curr == ppoints[i + 1]
                  next == ppoints[((i + 1) % Len(ppoints)) + 1]
                  q == pparsed[2 * i + 1]
                  r == pparsed[2 * i + 2]
              IN /\ 4 * q.x = 3 * curr.x + next.x
                 /\ 4 * q.y = 3 * curr.y + next.y
                 /\ 4 * r.x = curr.x + 3 * next.x
                 /\ 4 * r.y = curr.y + 3 * next.y
    ELSE pparsed = ppoints

\* Four different points were smoothed into eight.
C22_Witness ==
  /\ ppc = "smoothed"
  /\ Len(ppoints) = 4
  /\ Cardinality({ppoints[i] : i \in 1..4}) = 4
  /\ Len(pparsed) = 8
  /\ pparsed[1] # pparsed[2]

----------------------------------------------------------------------------
\* Claims about fitting and panning the two viewports (SpecView).

\* The margin the editor leaves around the glyph (width + 40), the margin of
\* the extractor around the image (none), and the largest scale of a fit.
EditorMargin == 20
ExtractorMargin == 0
MaxFitScale == 2

\* scale = min(vw / (cw + 2 margin), vh / (ch + 2 margin), MaxFitScale), and
\* the content centred at that scale.
FitScale(view, cw, ch, margin) ==
  RMin(RMin(Rat(view.w, cw + 2 * margin), Rat(view.h, ch + 2 * margin)),
       RInt(MaxFitScale))

FitOffset(viewDim, contentDim, scale) ==
  Half(RSub(RInt(viewDim), RMul(RInt(contentDim), scale)))

\* C23: a fit of the editor (on opening a glyph and on Fit) and a reset of the
\* extractor's view set the scale to min(vw/(cw + 2 margin), vh/(ch + 2 margin), 2)
\* and the translation to (viewport - content * scale) / 2 on each axis.
C23_FitToView ==
  [][ /\ (handleFitScreen \/ (editingGlyph = NoGlyph /\ editingGlyph' # NoGlyph)) =>
           LET g == editingGlyph'
               sc == FitScale(eview, g.width, g.height, EditorMargin)
           IN /\ etransform'.k = sc
              /\ etransform'.x = FitOffset(eview.w, g.width, sc)
              /\ etransform'.y = FitOffset(eview.h, g.height, sc)
      /\ resetView =>
           LET sc == FitScale(xview, imgNat.w, imgNat.h, ExtractorMargin)
           IN /\ xtransform'.scale = sc
              /\ xtransform'.x = FitOffset(xview.w, imgNat.w, sc)
              /\ xtransform'.y = FitOffset(xview.h, imgNat.h, sc) ]_vars

----------------------------------------------------------------------------
\* Claim about the sampler (SpecSample): selections over two-by-two rasters in
\* colours whose luma lies below, on and above the thresholds.

\* Colours with luma 33 (computed just below, exactly, just above), 100 and the
\* two extremes, each opaque and transparent.
SampleColours ==
  {<<c[1], c[2], c[3], a>> :
     c \in {<<53, 29, 3>>, <<50, 32, 0>>, <<1, 1, 201>>, <<100, 100, 100>>, Black, White},
     a \in {0, 255}}

SampleThresholds == {33, 34, 100, 128}

InitSample ==
  /\ \E dark \in (SUBSET Pixels(2, 2)) \ {{}}, ink \in SampleColours :
       region = [Raster(2, 2, dark) EXCEPT !.ink = ink]
  /\ natScale = <<1, 5>>
  /\ selection = SelectionOver(region, natScale)
  /\ threshold \in SampleThresholds
  /\ canvas = NoCanvas
  /\ tpc = "idle"
  /\ foundStart = FALSE
  /\ start = NoPixel
  /\ p = NoPixel
  /\ b = NoPixel
  /\ steps = 0
  /\ tpoints = <<>>
  /\ loopExit = "none"
  /\ simplified = <<>>
  /\ glyphs = <<>>
  /\ clock = 123456
  /\ PathIdle
  /\ EditIdle /\ XViewIdle /\ EnvIdle /\ BookIdle

SpecSample == InitSample /\ [][NextTrace]_vars

\* C24: isPixelOn is false at every coordinate outside the raster; at a pixel
\* inside it is true exactly when 34R + 50G + 16B < 100 * threshold, whatever
\* the alpha of the pixel; the scan for the start pixel finds one exactly when
\* some pixel of the raster passes that test.
C24_Sampler ==
  canvas # NoCanvas =>
    /\ \A x \in (0 - 1)..canvas.w, y \in (0 - 1)..canvas.h :
         isPixelOn(canvas, x, y, threshold)
           = /\ x >= 0 /\ x < canvas.w /\ y >= 0 /\ y < canvas.h
             /\ Brightness100(PixelRGB(canvas, x, y)) < 100 * threshold
    /\ \A x \in 0..(canvas.w - 1), y \in 0..(canvas.h - 1), a \in {0, 255} :
         isPixelOn([canvas EXCEPT !.ink[4] = a], x, y, threshold)
           = isPixelOn(canvas, x, y, threshold)
    /\ tpc \in {"trace", "simplify", "done"} =>
         foundStart = (\E px \in Pixels(canvas.w, canvas.h) :
                         Brightness100(PixelRGB(canvas, px[1], px[2])) < 100 * threshold)

----------------------------------------------------------------------------
\* Claim about panning (SpecPan): presses, moves, releases and wheel turns over
\* the extractor and over the editor; the wheel turns where the pointer is.

MaxPanOps == 5

PanPoints == { <<224, 320>>, <<416, 364>>, <<300, 200>> }

PanPresses ==
  { [clientX |-> c[1], clientY |-> c[2], pan |-> pn] : c \in PanPoints, pn \in BOOLEAN }

PanMoves == { [clientX |-> c[1], clientY |-> c[2], pan |-> FALSE] : c \in PanPoints }

WheelAt(pos) == { [clientX |-> pos.x, clientY |-> pos.y, deltaY |-> dy] : dy \in {0 - 100, 100} }

InitPan ==
  /\ PathIdle /\ ExtractIdle /\ XViewIdle /\ EditIdle
  /\ glyphs = <<SquareGlyph>>
  /\ clock = 123456
  /\ eview = EditorView
  /\ xview = ExtractorView
  /\ imgNat = [w |-> 400, h |-> 300]
  /\ opLimit = MaxPanOps
  /\ ImageIdle
  /\ pointer = NoPointer
  /\ nOps = 0
  /\ zoomProbe = NoProbe
  /\ lastOp = "none" /\ hbase = <<>> /\ hdropped = 0 /\ hActs = 0 /\ hUndos = 0

NextPan ==
  \/ \E e \in PanPresses : handleMouseDown(e)
  \/ \E e \in PanMoves : Extractor_handleMouseMove(e)
  \/ Extractor_handleMouseUp
  \/ xIsPanning /\ \E e \in WheelAt(pointer) : Extractor_handleWheel(e)
  \/ StartEditGlyph(glyphs[1])
  \/ \E e \in PanPresses : handleCanvasMouseDown(e)
  \/ \E e \in PanMoves : Editor_handleMouseMove(e)
  \/ Editor_handleMouseUp
  \/ isPanning /\ \E e \in WheelAt(lastMousePos) : Editor_handleWheel(e)

SpecPan == InitPan /\ [][NextPan]_vars

\* C25: a move while panning adds the displacement of the pointer since the
\* last pointer event to the translation and leaves the scale alone, in the
\* extractor and in the editor (over press, moves, release the displacements
\* add up to the one between the press and the last move).
C25_Pan ==
  [][ /\ \A e \in PanMoves :
           (xIsPanning /\ Extractor_handleMouseMove(e)) =>
             xtransform' = [xtransform EXCEPT
                              !.x = RAdd(@, RInt(e.clientX - pointer.x)),
                              !.y = RAdd(@, RInt(e.clientY - pointer.y))]
      /\ \A e \in PanMoves :
           (isPanning /\ Editor_handleMouseMove(e)) =>
             etransform' = [etransform EXCEPT
                              !.x = RAdd(@, RInt(e.clientX - lastMousePos.x)),
                              !.y = RAdd(@, RInt(e.clientY - lastMousePos.y))] ]_vars

----------------------------------------------------------------------------
\* Claim about the history across a change of the edited glyph (SpecSession).

\* C26: the history holds snapshots of the glyph being edited only: when the
\* open editor is given another glyph, nothing of the history taken on the
\* glyph before is left for an undo to restore or for a Save to write under
\* the new glyph's id.
C26_HistoryIsolation ==
  [][ (editingGlyph # NoGlyph /\ editingGlyph' # NoGlyph /\ editingGlyph' # editingGlyph)
        => history' = <<>> ]_vars

----------------------------------------------------------------------------
\* Claim about the pointer modes (SpecPointer).

\* C27: the editor never has a dragged node while it is panning, and the
\* extractor is never dragging a selection while it is panning.
C27_ModeExclusion ==
  /\ ~(dragIdx # NoDrag /\ isPanning)
  /\ ~(isDragging /\ xIsPanning)

----------------------------------------------------------------------------
\* Claim about one iteration of the trace loop (SpecTrace).

\* C28: when an iteration of the trace loop starts, b is one of the 8
\* neighbours of p and is background or outside the raster, and p is
\* foreground; the iteration moves p to the first foreground neighbour of p
\* met going clockwise from the neighbour after b (and leaves p where it is
\* when no neighbour is foreground).
C28_TraceStepInvariant ==
  [][ tpc = "trace" =>
        LET at == {k \in 0..7 : Neighbour(p, k) = b}
            ring(i) == Neighbour(p, ((CHOOSE k \in at : TRUE) + 1 + i) % 8)
            on(i) == isPixelOn(canvas, ring(i).x, ring(i).y, threshold)
        IN /\ at # {}
           /\ ~isPixelOn(canvas, b.x, b.y, threshold)
           /\ isPixelOn(canvas, p.x, p.y, threshold)
           /\ TraceStep =>
                IF \E i \in 0..7 : on(i)
                THEN \E i \in 0..7 : /\ on(i)
                                     /\ \A j \in 0..(i - 1) : ~on(j)
                                     /\ p' = ring(i)
                ELSE p' = p ]_vars

\* The trace is three steps into an outline, away from its start, with the
\* backtrack pixel inside the raster.
C28_Witness ==
  /\ tpc = "trace"
  /\ steps >= 3
  /\ p # start
  /\ b.x >= 0 /\ b.x < canvas.w /\ b.y >= 0 /\ b.y < canvas.h
  /\ Cardinality(Foreground(canvas, threshold)) >= 4

----------------------------------------------------------------------------
\* App.tsx: the source image, its undo stack and the AI image edit (SpecImage).
\* handleEditImage runs up to its await in one step; the call it waits for
\* settles, with an image or with an error, in a later step of its own.

MaxImageOps == 5

\* The images a user uploads, and the image the service makes of one.
UploadImages == {1, 2}
Edited(img) == img + 10

\* A call in flight is [on, at]: the image it was given, and the place in the
\* undo stack of the snapshot its handler pushed (0 once that snapshot has left
\* the stack). Forget marks the snapshots at the places from n on as gone.
Forget(reqs, n) ==
  [i \in 1..Len(reqs) |-> IF reqs[i].at >= n THEN [reqs[i] EXCEPT !.at = 0] ELSE reqs[i]]

Settle(reqs, i) == [j \in 1..(Len(reqs) - 1) |-> IF j < i THEN reqs[j] ELSE reqs[j + 1]]

\* What the image handlers leave alone.
exceptImage == <<pathVars, extractVars, clock, editVars, xviewVars, pageVars, pointer,
                 zoomProbe, histVars>>

\* Lines 18-23; the uploader is shown while there is no image and no glyph is
\* edited (lines 103-115).
handleImageSelected(base64) ==
  /\ editingGlyph = NoGlyph /\ currentImage = NoImage /\ MayAct
  /\ imageHistory' = <<>>
  /\ currentImage' = base64
  /\ glyphs' = <<>>
  /\ requests' = Forget(requests, 1)
  /\ nOps' = nOps + 1
  /\ UNCHANGED <<status, error, exceptImage>>

\* GeminiEditor.handleSubmit (lines 15-21) and lines 25-35 up to the await; the
\* panel takes clicks while there is an image and no glyph is edited (line 146).
handleEditImage ==
  /\ editingGlyph = NoGlyph /\ currentImage # NoImage /\ MayAct
  /\ status # "GENERATING"
  /\ status' = "GENERATING"
  /\ error' = FALSE
  /\ imageHistory' = Append(imageHistory, currentImage)
  /\ requests' = Append(requests, [on |-> currentImage, at |-> Len(imageHistory) + 1])
  /\ nOps' = nOps + 1
  /\ UNCHANGED <<currentImage, glyphs, exceptImage>>

\* Lines 36-37: the call returned an image.
handleEditImageResolved(i) ==
  /\ i \in 1..Len(requests)
  /\ currentImage' = Edited(requests[i].on)
  /\ status' = "IDLE"
  /\ requests' = Settle(requests, i)
  /\ UNCHANGED <<imageHistory, error, glyphs, nOps, exceptImage>>

\* Lines 38-42: the call threw.
handleEditImageFailed(i) ==
  /\ i \in 1..Len(requests)
  /\ error' = TRUE
  /\ status' = "ERROR"
  /\ imageHistory' = SubSeq(imageHistory, 1, Len(imageHistory) - 1)
  /\ requests' = Forget(Settle(requests, i), Len(imageHistory))
  /\ UNCHANGED <<currentImage, glyphs, nOps, exceptImage>>

\* Lines 45-50; the button is there while the stack is not empty (GeminiEditor
\* lines 37-44).
App_handleUndo ==
  /\ editingGlyph = NoGlyph /\ currentImage # NoImage /\ MayAct
  /\ Len(imageHistory) > 0
  /\ currentImage' = imageHistory[Len(imageHistory)]
  /\ imageHistory' = SubSeq(imageHistory, 1, Len(imageHistory) - 1)
  /\ requests' = Forget(requests, Len(imageHistory))
  /\ nOps' = nOps + 1
  /\ UNCHANGED <<status, error, glyphs, exceptImage>>

\* Lines 69-75, with no glyph in the editor (the button shows while there is an
\* image, line 90).
handleReset ==
  /\ editingGlyph = NoGlyph /\ currentImage # NoImage /\ MayAct
  /\ currentImage' = NoImage
  /\ imageHistory' = <<>>
  /\ glyphs' = <<>>
  /\ status' = "IDLE"
  /\ requests' = Forget(requests, 1)
  /\ nOps' = nOps + 1
  /\ UNCHANGED <<error, exceptImage>>

InitImage ==
  /\ PathIdle /\ ExtractIdle /\ XViewIdle /\ EditIdle
  /\ glyphs = <<>>
  /\ clock = 123456
  /\ eview = EditorView
  /\ xview = ExtractorView
  /\ imgNat = [w |-> 400, h |-> 300]
  /\ opLimit = MaxImageOps
  /\ currentImage = NoImage
  /\ imageHistory = <<>>
  /\ status = "IDLE"
  /\ error = FALSE
  /\ requests = <<>>
  /\ pointer = NoPointer
  /\ BookIdle

NextImage ==
  \/ \E base64 \in UploadImages : handleImageSelected(base64)
  \/ handleEditImage
  \/ \E i \in 1..Len(requests) : handleEditImageResolved(i)
  \/ \E i \in 1..Len(requests) : handleEditImageFailed(i)
  \/ App_handleUndo
  \/ handleReset

SpecImage == InitImage /\ [][NextImage]_vars

\* C29: a failed image edit takes from the undo stack the snapshot that this
\* edit pushed, or nothing when an Undo has taken it before, and leaves the
\* current image as it is; no other image leaves the stack.
C29_FailedEditRollback ==
  [][ \A i \in 1..Len(requests) :
        handleEditImageFailed(i) =>
          /\ currentImage' = currentImage
          /\ imageHistory' =
               IF requests[i].at = 0 THEN imageHistory
               ELSE [j \in 1..(Len(imageHistory) - 1) |->
                       IF j < requests[i].at THEN imageHistory[j]
                       ELSE imageHistory[j + 1]] ]_vars

\* C30: the image a settled edit brings replaces the image the edit was asked
\* for and no other (none after a reset or a new upload), and no two calls
\* are in flight together.
C30_StaleResponse ==
  [][ /\ \A i \in 1..Len(requests) :
           handleEditImageResolved(i) => currentImage = requests[i].on
      /\ Len(requests') <= 1 ]_vars

----------------------------------------------------------------------------
\* Claim about edits that change nothing (SpecRefuse): the editor on the square
\* or on the triangle; a node is pressed and released, nodes are deleted, the
\* outline is smoothed and simplified, edits are undone. Nothing but a move or
\* a release happens while a node is held.

NextRefuse ==
  \/ \E idx \in NodePicks(points) : dragIdx = NoDrag /\ handleNodeMouseDown(idx)
  \/ Editor_handleMouseUp
  \/ \E idx \in NodePicks(points) : dragIdx = NoDrag /\ handleDoubleClickNode(idx)
  \/ dragIdx = NoDrag /\ Len(points) <= MaxSmoothLen /\ handleSmooth
  \/ dragIdx = NoDrag /\ handleSimplify
  \/ dragIdx = NoDrag /\ handleUndo

SpecRefuse == InitShape /\ [][NextRefuse]_vars

\* C31: a delete on 3 or fewer points and a simplify on 6 or fewer points
\* leave the points and the history as they are, and after a node was pressed
\* and released with no move in between the points and the history are what
\* they were before the press (the history the press left is the released one
\* plus the snapshot of the press).
C31_RefusedEdits ==
  [][ /\ \A idx \in NodePicks(points) :
           (handleDoubleClickNode(idx) /\ Len(points) <= 3) =>
             (points' = points /\ history' = history)
      /\ (handleSimplify /\ Len(points) <= 6) =>
             (points' = points /\ history' = history)
      /\ (Editor_handleMouseUp /\ dragIdx # NoDrag /\ lastOp = "push") =>
             (points' = points /\ saveHistory(history', points) = history) ]_vars

----------------------------------------------------------------------------
\* Claim about the glyph an extraction adds to the collection (SpecTrace).

\* C32: the width and height of an extracted glyph are those of the traced
\* raster, and every coordinate pair its path description holds is a whole
\* pixel (x, y) with 0 <= x < width and 0 <= y < height.
C32_GlyphBounds ==
  \A i \in 1..Len(glyphs) :
    LET g == glyphs[i]
        pts == parsePath(g.svgPath)
    IN /\ g.width = canvas.w /\ g.height = canvas.h
       /\ Len(pts) >= 3
       /\ \A k \in 1..Len(pts) :
            /\ pts[k].x % Den = 0 /\ pts[k].y % Den = 0
            /\ 0 <= pts[k].x /\ pts[k].x < g.width * Den
            /\ 0 <= pts[k].y /\ pts[k].y < g.height * Den

\* A glyph of a raster wider than high whose outline touches the left, the
\* top, the right and the bottom edge of the raster.
C32_Witness ==
  /\ Len(glyphs) = 1
  /\ glyphs[1].width > glyphs[1].height
  /\ LET pts == parsePath(glyphs[1].svgPath)
     IN /\ \E k \in 1..Len(pts) : pts[k].x = 0
        /\ \E k \in 1..Len(pts) : pts[k].y = 0
        /\ \E k \in 1..Len(pts) : pts[k].x = (glyphs[1].width - 1) * Den
        /\ \E k \in 1..Len(pts) : pts[k].y = (glyphs[1].height - 1) * Den

====
